---- MODULE Spec2Model ----
(***************************************************************************)
(* A model of slack-lists-mcp: the retry wrapper of SlackListsClient       *)
(* (_call_with_retry), the client operations built on it, the tools of     *)
(* server.py that wrap them, and the client-side filter matcher.           *)
(*                                                                         *)
(* A remote response is a record                                           *)
(*   raised : the HTTP client raised SlackApiError (TRUE) or returned      *)
(*   ok     : the "ok" flag of the response body                           *)
(*   code   : the "error" code of the body ("" on success)                 *)
(*   hint   : the Retry-After header in seconds, 0 when absent             *)
(*   items  : how many items the body lists                                *)
(*   url    : whether the body carries a non-empty download_url            *)
(* Time is counted in whole seconds.                                       *)
(***************************************************************************)
EXTENDS Integers, Sequences, FiniteSets, TLC

VARIABLES
    retry_count,      \* SlackListsClient.retry_count, read-only after __init__
    inv,              \* the _call_with_retry invocations in flight, one per task
    default_list_id,  \* whether settings.default_list_id is configured
    tool,             \* the tool of server.py being run
    args,             \* its arguments
    phase,            \* "start", "remote", "pollsleep", "done"
    op,               \* the client method whose remote call is in flight
    stage,            \* "first" or "second" remote call of that method
    w,                \* the _call_with_retry invocation of the run
    elapsed,          \* seconds since wait_for_export took start_time
    opres,            \* what the client returned or raised to the tool
    envelope,         \* what the tool returned to its caller
    opCalls,          \* remote calls issued by the run so far
    failure,          \* error code of the remote call that ended in failure
    item,             \* the item given to _matches_filters
    filters,          \* the filter set given to _matches_filters
    result,           \* what _matches_filters did: "true", "false", "raise"
    cvalue,           \* the value given to _apply_filter_condition
    ccond,            \* the condition given to it
    holds,            \* what it did: "true", "false", "raise"
    limit,            \* the limit given to iter_all_items / list_items
    lpc,              \* where iter_all_items is: "idle", "call", "await", "done"
    cursor,           \* the cursor local of iter_all_items ("" for None)
    requests,         \* the slackLists.items.list requests sent so far
    pages,            \* the responses the server gave to them
    listed,           \* what the latest list_items call returned
    yielded,          \* the items iter_all_items yielded so far
    nfields,          \* the fields given to _normalize_fields
    normalized,       \* the list it returns
    ndone,            \* whether it has returned
    ncall,            \* the call made on nfields: _normalize_fields or batch_create_items
    nrefs,            \* the identities of the objects in the returned list
    htype,            \* the field type given to make_field
    hinput,           \* the value given to it
    made,             \* the value make_field stores under the type key
    hnorm,            \* the value _normalize_fields gives the same input
    hdone,            \* whether both have returned
    cb,               \* a ColumnBuilder: _key, _type, _is_primary, _options
    lastSet,          \* the type its last type-setting call asked for
    cbuilt,           \* what its last build() returned or raised
    columns,          \* a SchemaBuilder: _columns
    has_primary,      \* its _has_primary
    serror,           \* the ValueError its last add_column raised, if any
    sbuilt,           \* what its last build() returned or raised
    bfields,          \* an ItemBuilder: _fields
    bcells,           \* what its last build_cells or build_create_cells returned
    bbuilt,           \* what its last build() returned or raised
    bop               \* the last ItemBuilder method called

runVars ==
    <<default_list_id, tool, args, phase, op, stage, w, elapsed, opres,
      envelope, opCalls, failure>>

filterVars == <<item, filters, result>>

condVars == <<cvalue, ccond, holds>>

listVars == <<limit, lpc, cursor, requests, pages, listed, yielded>>

normVars == <<nfields, normalized, ndone, ncall, nrefs>>

helperVars == <<htype, hinput, made, hnorm, hdone>>

columnVars == <<cb, lastSet, cbuilt>>

schemaVars == <<columns, has_primary, serror, sbuilt>>

itemVars == <<bfields, bcells, bbuilt, bop>>

vars == <<retry_count, inv, runVars, filterVars, condVars, listVars, normVars, helperVars, columnVars, schemaVars, itemVars>>

\* no _matches_filters call in progress
NoFilterCall ==
    /\ item = [fields |-> <<>>]
    /\ filters = <<>>
    /\ result = "none"

\* no _apply_filter_condition call in progress
NoConditionCall ==
    /\ cvalue = [t |-> "none", s |-> <<>>, l |-> <<>>]
    /\ ccond = <<>>
    /\ holds = "none"

\* no iter_all_items / list_items call in progress
NoListing ==
    /\ limit = 0
    /\ lpc = "idle"
    /\ cursor = ""
    /\ requests = <<>>
    /\ pages = <<>>
    /\ listed = [items |-> <<>>, has_more |-> FALSE, next_cursor |-> "",
                 total |-> 0]
    /\ yielded = <<>>

\* the empty dict {}
EmptyDict == [k \in {} |-> TRUE]

\* no ColumnBuilder in use
NoColumnBuilder ==
    /\ cb = [key |-> "", type |-> "none", is_primary |-> FALSE,
             options |-> EmptyDict]
    /\ lastSet = "none"
    /\ cbuilt = [error |-> "", column |-> EmptyDict]

\* no SchemaBuilder in use
NoSchemaBuilder ==
    /\ columns = <<>>
    /\ has_primary = FALSE
    /\ serror = ""
    /\ sbuilt = [error |-> "not built", schema |-> <<>>]

\* no ItemBuilder in use
NoItemBuilder ==
    /\ bfields = <<>>
    /\ bcells = <<>>
    /\ bbuilt = [error |-> "not built", fields |-> <<>>]
    /\ bop = "none"

\* no make_field call in progress
NoHelperCall ==
    /\ htype = "none"
    /\ hinput = [t |-> "none", s |-> <<>>, l |-> <<>>]
    /\ made = [t |-> "none", s |-> <<>>, l |-> <<>>]
    /\ hnorm = [t |-> "none", s |-> <<>>, l |-> <<>>]
    /\ hdone = FALSE

\* no _normalize_fields call in progress
NoNormalizing ==
    /\ nfields = <<>>
    /\ normalized = <<>>
    /\ ndone = FALSE
    /\ ncall = "none"
    /\ nrefs = <<>>

-----------------------------------------------------------------------------
(* Bounds *)

MaxRetry == 2      \* retry_count ranges over 0..MaxRetry
NumTasks == 2      \* logical calls in flight at once

Tasks == 1..NumTasks

-----------------------------------------------------------------------------
(* The retry wrapper: SlackListsClient._call_with_retry *)

RETRYABLE_ERRORS ==
    {"rate_limited", "service_unavailable", "internal_error", "request_timeout"}

base_delay == 1

Max(a, b) == IF a >= b THEN a ELSE b

RECURSIVE Pow2(_)
Pow2(n) == IF n <= 0 THEN 1 ELSE 2 * Pow2(n - 1)

\* No response yet (last_exception = None, no call made).
NoResp ==
    [raised |-> FALSE, ok |-> FALSE, code |-> "<none>", hint |-> 0,
     items |-> 0, url |-> FALSE]

Returned(ok, code, items, url) ==
    [raised |-> FALSE, ok |-> ok, code |-> code, hint |-> 0,
     items |-> items, url |-> url]

ApiError(code, hint) ==
    [raised |-> TRUE, ok |-> FALSE, code |-> code, hint |-> hint,
     items |-> 0, url |-> FALSE]

\* The state of one invocation.  pc: "idle" (not started), "call" (about to
\* issue client.api_call), "sleep" (inside asyncio.sleep(delay)), "returned",
\* "raised".  attempt, last_exception and delay are the locals of the code;
\* last is the response to the most recent call (response, or e.response);
\* out is what the invocation returned or raised.  calls, sleeps and fails
\* count the remote calls made, the sleeps entered, and the responses that
\* were retryable failures.
IdleCall ==
    [pc |-> "idle", attempt |-> 0, last_exception |-> NoResp, delay |-> 0,
     last |-> NoResp, out |-> NoResp, calls |-> 0, sleeps |-> 0, fails |-> 0]

StartCall == [IdleCall EXCEPT !.pc = "call"]

IsRetryableFailure(r) == r.raised /\ r.code \in RETRYABLE_ERRORS

ShouldRetry_le(error_code, attempt) ==
    error_code \in RETRYABLE_ERRORS /\ attempt <= retry_count

ShouldRetry_any(error_code, attempt) == attempt < retry_count

\* line 133: if error_code in RETRYABLE_ERRORS and attempt < self.retry_count
ShouldRetry(error_code, attempt) ==
    error_code \in RETRYABLE_ERRORS /\ attempt < retry_count

BackoffDelay_hint(error_code, attempt, retry_after) ==
    IF error_code = "rate_limited" /\ retry_after # 0
    THEN retry_after
    ELSE base_delay * Pow2(attempt)

\* lines 135-141: exponential backoff, raised to Retry-After for rate_limited
BackoffDelay(error_code, attempt, retry_after) ==
    LET delay == base_delay * Pow2(attempt)
    IN  IF error_code = "rate_limited" /\ retry_after # 0
        THEN Max(delay, retry_after)
        ELSE delay

Caught_ok(r) == r.raised \/ ~r.ok

\* line 129: except SlackApiError -- only a raised error enters the handler
Caught(r) == r.raised

\* lines 121-152: one iteration of the loop, the call answered by r
RetryAttempt(c, r) ==
    LET c1 == [c EXCEPT !.calls = @ + 1, !.last = r,
                        !.fails = IF IsRetryableFailure(r) THEN @ + 1 ELSE @]
    IN  IF ~Caught(r)
        THEN [c1 EXCEPT !.pc = "returned", !.out = r]
        ELSE IF ShouldRetry(r.code, c.attempt)
             THEN [c1 EXCEPT !.pc = "sleep", !.sleeps = @ + 1,
                             !.delay = BackoffDelay(r.code, c.attempt, r.hint)]
             ELSE [c1 EXCEPT !.pc = "raised", !.out = r]

\* lines 147-149, 121, 154-157: the sleep ends, last_exception = e, continue;
\* when the range is exhausted the loop falls through to raise last_exception
RetryWake(c) ==
    LET c1 == [c EXCEPT !.last_exception = c.last]
    IN  IF c.attempt + 1 < retry_count + 1
        THEN [c1 EXCEPT !.pc = "call", !.attempt = @ + 1]
        ELSE [c1 EXCEPT !.pc = "raised", !.out = c1.last_exception]

-----------------------------------------------------------------------------
(* Error messages: ERROR_MESSAGES and SlackListsClient._handle_api_error *)

ERROR_MESSAGES ==
    ("invalid_arguments" :> "Invalid parameters provided. Check field formats and required values.") @@
    ("invalid_request" :> "Malformed request or missing required parameters.") @@
    ("list_not_found" :> "List not found. The list may have been deleted or you don't have access.") @@
    ("item_not_found" :> "Item not found in the list. It may have been deleted.") @@
    ("not_found" :> "Resource not found. The requested item, list, or resource doesn't exist.") @@
    ("access_denied" :> "Access denied. You don't have permission to perform this action.") @@
    ("rate_limited" :> "Rate limited. Too many requests - please wait and retry.") @@
    ("ratelimited" :> "Rate limited. Too many requests - please wait and retry.") @@
    ("too_many_requests" :> "Too many requests. Please slow down and retry.") @@
    ("not_authed" :> "Authentication failed. Check your Slack bot token.") @@
    ("invalid_auth" :> "Invalid authentication. The token may be revoked or invalid.") @@
    ("account_inactive" :> "The Slack account is inactive or deleted.") @@
    ("missing_scope" :> "Missing required OAuth scope. Check bot permissions.") @@
    ("channel_not_found" :> "Channel not found or bot doesn't have access.") @@
    ("user_not_found" :> "User not found in the workspace.") @@
    ("cant_update_message" :> "Cannot update this item. It may be locked or archived.") @@
    ("is_archived" :> "Cannot modify archived list or item.") @@
    ("restricted_action" :> "This action is restricted by workspace settings.") @@
    ("team_added_to_org" :> "This workspace was added to an Enterprise Grid organization.") @@
    ("ekm_access_denied" :> "Access denied by Enterprise Key Management.") @@
    ("invalid_cursor" :> "Invalid pagination cursor. Start from the beginning.") @@
    ("fatal_error" :> "A fatal server error occurred. Please try again later.") @@
    ("invalid_blocks" :> "Invalid Block Kit formatting in text fields. Check rich_text structure.") @@
    ("failed_to_parse_block_kit" :> "Block Kit parsing error. Ensure rich_text follows Block Kit format.")


\* lines 80-82: error_code = e.response.get("error", "Unknown error");
\* error_msg = ERROR_MESSAGES.get(error_code, error_code)
HandleApiError(r) ==
    LET error_code == IF r.code = "" THEN "Unknown error" ELSE r.code
    IN  IF error_code \in DOMAIN ERROR_MESSAGES
        THEN ERROR_MESSAGES[error_code]
        ELSE error_code

-----------------------------------------------------------------------------
(* Arguments of a tool call.  A field or cell is the set of keys of its     *)
(* mapping ("row_id_to_create" standing for the key with a true value).     *)

MaxFields == 2     \* fields, cells or item ids given to one call
MaxTimeout == 3    \* timeout of wait_for_export, in seconds

poll_interval == 2

FieldShapes ==
    { {"column_id", "text"}, {"text"}, {"column_id"}, {"column_id", "vote"} }

CellShapes ==
    { {"row_id", "column_id", "text"},
      {"row_id_to_create", "column_id", "text"},
      {"column_id", "text"},
      {"row_id", "row_id_to_create", "column_id", "text"},
      {"row_id", "text"} }

SeqsUpTo(S, n) == UNION { [1..k -> S] : k \in 0..n }

DefaultArgs ==
    [list_id |-> TRUE, fields |-> <<>>, dup |-> FALSE, cells |-> <<>>,
     ids |-> 1, users |-> FALSE, channels |-> FALSE, level |-> "read",
     changes |-> {}, timeout |-> 1]

ItemTools ==
    {"add_list_item", "update_list_item", "delete_list_item",
     "delete_list_items", "get_list_item", "list_items", "get_list_info",
     "get_list_structure"}

Tools ==
    ItemTools \cup
    {"create_list", "update_list", "delete_list", "set_list_access",
     "delete_list_access", "start_list_export", "get_list_export_url",
     "wait_for_export"}

ListIdChoices(t) == IF t \in ItemTools THEN BOOLEAN ELSE {TRUE}

ArgsFor(t) ==
    { [a EXCEPT !.list_id = l] :
        l \in ListIdChoices(t),
        a \in CASE t = "add_list_item" ->
                     { [DefaultArgs EXCEPT !.fields = f, !.dup = d] :
                         f \in SeqsUpTo(FieldShapes, MaxFields), d \in BOOLEAN }
                [] t = "update_list_item" ->
                     { [DefaultArgs EXCEPT !.cells = c] :
                         c \in SeqsUpTo(CellShapes, MaxFields) }
                [] t = "delete_list_items" ->
                     { [DefaultArgs EXCEPT !.ids = n] : n \in 0..MaxFields }
                [] t = "set_list_access" ->
                     { [DefaultArgs EXCEPT !.users = u, !.channels = c, !.level = v] :
                         u \in BOOLEAN, c \in BOOLEAN,
                         v \in {"read", "write", "owner", "admin"} }
                [] t = "delete_list_access" ->
                     { [DefaultArgs EXCEPT !.users = u, !.channels = c] :
                         u \in BOOLEAN, c \in BOOLEAN }
                [] t = "update_list" ->
                     { [DefaultArgs EXCEPT !.changes = c] :
                         c \in {{}, {"name"}, {"description", "todo_mode"}} }
                [] t = "wait_for_export" ->
                     { [DefaultArgs EXCEPT !.timeout = n] : n \in 1..MaxTimeout }
                [] OTHER -> {DefaultArgs} }

-----------------------------------------------------------------------------
(* Local validation in the client methods *)

\* slack_client.py lines 318-335
supported_field_types ==
    {"text", "rich_text", "user", "select", "checkbox", "date", "number",
     "email", "phone", "attachment", "link", "message", "rating", "timestamp",
     "channel", "reference"}

RECURSIVE FirstFieldError(_)
\* lines 314-340: the first field that fails decides
FirstFieldError(fields) ==
    IF Len(fields) = 0 THEN ""
    ELSE IF "column_id" \notin Head(fields)
         THEN "Each field must have a 'column_id'"
    ELSE IF Head(fields) \cap supported_field_types = {}
         THEN "Field must have a value"
    ELSE FirstFieldError(Tail(fields))

ValidateAddItem_nocheck(a) == ""

\* lines 296-340
ValidateAddItem(a) ==
    IF Len(a.fields) = 0 /\ ~a.dup
    THEN "Either initial_fields or duplicated_item_id must be provided"
    ELSE IF a.dup THEN ""
    ELSE FirstFieldError(a.fields)

\* lines 425-433
ValidateUpdateItem(a) ==
    IF Len(a.cells) = 0 THEN "At least one cell must be provided"
    ELSE IF \E i \in 1..Len(a.cells) :
               "row_id" \notin a.cells[i] /\ "row_id_to_create" \notin a.cells[i]
         THEN "Each cell must have either 'row_id' or 'row_id_to_create: true'"
    ELSE ""

\* lines 192-239, on the keys of a field or cell: text is replaced by
\* rich_text unless rich_text is there already; every other key stays
NormalizedKeys(shape) ==
    IF "text" \in shape /\ "rich_text" \notin shape
    THEN (shape \ {"text"}) \cup {"rich_text"}
    ELSE shape

\* lines 436-447: the cells of the slackLists.items.update request
SentCells(a) == [i \in 1..Len(a.cells) |-> NormalizedKeys(a.cells[i])]

\* lines 517-518
ValidateDeleteItems(a) ==
    IF a.ids = 0 THEN "At least one item ID must be provided" ELSE ""

\* lines 1057-1064
ValidateSetAccess(a) ==
    IF ~a.users /\ ~a.channels
    THEN "Either user_ids or channel_ids must be provided"
    ELSE IF a.users /\ a.channels
    THEN "Cannot specify both user_ids and channel_ids"
    ELSE IF a.level \notin {"read", "write", "owner"}
    THEN "access_level must be 'read', 'write', or 'owner'"
    ELSE IF a.level = "owner" /\ a.channels
    THEN "'owner' access level only works with user_ids"
    ELSE ""

\* lines 1116-1119
ValidateDeleteAccess(a) ==
    IF ~a.users /\ ~a.channels
    THEN "Either user_ids or channel_ids must be provided"
    ELSE IF a.users /\ a.channels
    THEN "Cannot specify both user_ids and channel_ids"
    ELSE ""

\* lines 1317-1341
ValidateUpdateList(a) ==
    IF a.changes = {}
    THEN "At least one of name, description, or todo_mode must be provided"
    ELSE ""

\* The ValueError a client method raises before its remote call, "" if none.
OpValidate(o, a) ==
    CASE o = "add_item" -> ValidateAddItem(a)
      [] o = "update_item" -> ValidateUpdateItem(a)
      [] o = "delete_items" -> ValidateDeleteItems(a)
      [] o = "set_access" -> ValidateSetAccess(a)
      [] o = "delete_access" -> ValidateDeleteAccess(a)
      [] o = "update_list" -> ValidateUpdateList(a)
      [] OTHER -> ""

-----------------------------------------------------------------------------
(* What a client method hands back: kind "return", or the exception raised  *)
(* ("ValueError", "Exception", "TimeoutError"); "call" asks for a further   *)
(* remote call of the same method.  The message of an exception is prefix,  *)
(* ": ", text.                                                              *)

Result(kind, prefix, text, status, url, items) ==
    [kind |-> kind, prefix |-> prefix, text |-> text, status |-> status,
     url |-> url, items |-> items, keys |-> {}]

NoResult == Result("none", "", "", "", FALSE, 0)

\* The keys of the mapping a method returns on success; {} where it hands
\* on a part of the response body (the item, the list).
ReturnKeys(o) ==
    CASE o \in {"update_item", "set_access", "delete_access", "update_list"} ->
           {"success"}
      [] o = "delete_item" -> {"deleted", "item_id"}
      [] o = "delete_items" -> {"deleted", "count", "item_ids"}
      [] o = "get_item" -> {"item", "list", "subtasks"}
      [] o = "list_items" -> {"items", "has_more", "next_cursor", "total"}
      [] o = "start_export" -> {"job_id", "list_id", "status"}
      [] o = "get_export_url" -> {"download_url", "job_id", "list_id", "status"}
      [] o = "delete_list" -> {"deleted", "list_id"}
      [] OTHER -> {}

FailPrefix(o) ==
    CASE o = "add_item" -> "Failed to add item"
      [] o = "update_item" -> "Failed to update items"
      [] o = "delete_item" -> "Failed to delete item"
      [] o = "delete_items" -> "Failed to delete items"
      [] o = "get_item" -> "Failed to get item"
      [] o = "list_items" -> "Failed to list items"
      [] o = "get_list" -> "Failed to get list"
      [] o = "create_list" -> "Failed to create list"
      [] o = "set_access" -> "Failed to set access"
      [] o = "delete_access" -> "Failed to delete access"
      [] o = "start_export" -> "Failed to start export"
      [] o = "get_export_url" -> "Failed to get export URL"
      [] o = "update_list" -> "Failed to update list"
      [] o = "delete_list" -> "Failed to delete list"

\* except SlackApiError as e: raise Exception(f"Failed to ...: {error}")
Wrapped(o, r) == Result("Exception", FailPrefix(o), HandleApiError(r), "", FALSE, 0)

\* line 1227: "completed" if response.get("download_url") else "processing"
ExportStatus_done(download_url) == "completed"

ExportStatus(download_url) ==
    IF download_url THEN "completed" ELSE "processing"

\* the value a method returns for a response with ok = true
Value(o, r) ==
    [ Result("return", "", "",
             CASE o = "start_export" -> "started"
               [] o = "get_export_url" -> ExportStatus(r.url)
               [] OTHER -> "",
             r.url, r.items)
      EXCEPT !.keys = ReturnKeys(o) ]


\* The method o resumes after its _call_with_retry invocation c ended:
\* if response.get("ok"): return ...; raise SlackApiError(...); the handlers.
\* get_list (lines 891-930) issues a second call when the list has items and
\* returns the basic info when that call answers ok = false.
ClientResult(o, st, c) ==
    IF c.pc = "raised" THEN Wrapped(o, c.out)
    ELSE IF c.out.ok
         THEN IF o = "get_list" /\ st = "first" /\ c.out.items > 0
              THEN Result("call", "", "", "", FALSE, 0)
              ELSE Value(o, c.out)
    ELSE IF o = "get_list" /\ st = "second"
         THEN [ Result("return", "", "", "", FALSE, 1)
                EXCEPT !.keys = {"id", "item_count", "message"} ]
    ELSE Wrapped(o, c.out)

-----------------------------------------------------------------------------
(* The tools of server.py.  An envelope is the mapping a tool returns: its  *)
(* keys, the values of "success", "error" and "status"; raised says that    *)
(* the tool raised instead.                                                 *)

Envelope(keys, success, prefix, text, status) ==
    [raised |-> FALSE, keys |-> keys, success |-> success,
     error |-> <<prefix, text>>, status |-> status]

NoEnvelope == Envelope({}, FALSE, "", "", "")

ToolOp(t) ==
    CASE t = "add_list_item" -> "add_item"
      [] t = "update_list_item" -> "update_item"
      [] t = "delete_list_item" -> "delete_item"
      [] t = "delete_list_items" -> "delete_items"
      [] t = "get_list_item" -> "get_item"
      [] t = "list_items" -> "list_items"
      [] t = "get_list_info" -> "get_list"
      [] t = "get_list_structure" -> "list_items"
      [] t = "create_list" -> "create_list"
      [] t = "update_list" -> "update_list"
      [] t = "delete_list" -> "delete_list"
      [] t = "set_list_access" -> "set_access"
      [] t = "delete_list_access" -> "delete_access"
      [] t = "start_list_export" -> "start_export"
      [] t = "get_list_export_url" -> "get_export_url"
      [] t = "wait_for_export" -> "get_export_url"

\* The checks a tool makes itself before it calls the client: the missing
\* list id (e.g. server.py lines 112-118), add_list_item lines 121-125,
\* update_list lines 800-804.  "" when the tool goes on.
ToolPrecheck(t, a, dflt) ==
    IF t \in ItemTools /\ ~a.list_id /\ ~dflt
    THEN "list_id is required. Either provide it as parameter or set DEFAULT_LIST_ID environment variable."
    ELSE IF t = "add_list_item" /\ Len(a.fields) = 0 /\ ~a.dup
    THEN "Either initial_fields or duplicated_item_id must be provided"
    ELSE IF t = "update_list" /\ a.changes = {}
    THEN "At least one of name, description, or todo_mode must be provided"
    ELSE ""

ToolEarly(text) == Envelope({"success", "error"}, FALSE, "", text, "")

\* the mapping each tool returns after the client returned
ToolReturn(t, res) ==
    CASE t = "add_list_item" -> Envelope({"success", "item"}, TRUE, "", "", "")
      [] t = "update_list_item" -> Envelope(res.keys, TRUE, "", "", "")
      [] t = "delete_list_item" ->
           Envelope({"success", "deleted", "item_id", "list_id"}, TRUE, "", "", "")
      [] t = "delete_list_items" ->
           Envelope({"success", "deleted", "count", "item_ids", "list_id"},
                    TRUE, "", "", "")
      [] t = "get_list_item" ->
           Envelope({"success", "item", "list_metadata", "subtasks"}, TRUE, "", "", "")
      [] t = "list_items" ->
           Envelope({"success", "items", "has_more", "next_cursor", "total"},
                    TRUE, "", "", "")
      [] t \in {"get_list_info", "create_list"} ->
           Envelope({"success", "list"}, TRUE, "", "", "")
      [] t = "get_list_structure" ->
           Envelope({"success", "structure"}, TRUE, "", "", "")
      [] t \in {"update_list", "delete_list_access"} ->
           Envelope({"success", "list_id"}, TRUE, "", "", "")
      [] t = "delete_list" ->
           Envelope({"success", "deleted", "list_id"}, TRUE, "", "", "")
      [] t = "set_list_access" ->
           Envelope({"success", "list_id", "access_level"}, TRUE, "", "", "")
      [] t = "start_list_export" ->
           Envelope({"success", "job_id", "list_id", "status", "hint"},
                    TRUE, "", "", "started")
      [] t = "get_list_export_url" ->
           Envelope({"success", "download_url", "job_id", "list_id", "status"},
                    TRUE, "", "", res.status)
      [] t = "wait_for_export" ->
           Envelope({"success", "download_url", "job_id", "list_id", "status"},
                    TRUE, "", "", "completed")

ToolExcept_reraise(t, res) == [NoEnvelope EXCEPT !.raised = TRUE]

\* the except clauses of the tools (e.g. server.py lines 152-160, 238-245,
\* 1214-1232)
ToolExcept(t, res) ==
    IF t = "wait_for_export" /\ res.kind = "TimeoutError"
    THEN Envelope({"success", "error", "status", "job_id", "list_id"},
                  FALSE, res.prefix, res.text, "timeout")
    ELSE IF t = "add_list_item"
    THEN Envelope({"success", "error", "hint"}, FALSE, res.prefix, res.text, "")
    ELSE Envelope({"success", "error"}, FALSE, res.prefix, res.text, "")

-----------------------------------------------------------------------------
(* One run of a tool.  The steps are cut where the code awaits: the remote  *)
(* call (client.api_call blocks, then its answer is handled), the end of a  *)
(* backoff sleep, the return of _call_with_retry into the client method,    *)
(* and the end of a poll sleep of wait_for_export.  The ctx logging of the  *)
(* tools is left out.                                                       *)

RunResponses ==
    { Returned(TRUE, "", n, u) : n \in {0, 1}, u \in BOOLEAN } \cup
    { Returned(FALSE, c, 0, FALSE) : c \in {"rate_limited", "list_not_found", "teapot"} } \cup
    { ApiError("rate_limited", h) : h \in {0, 1, 3} } \cup
    { ApiError("internal_error", h) : h \in {0, 3} } \cup
    { ApiError(c, 0) : c \in {"service_unavailable", "request_timeout",
                              "list_not_found", "teapot"} }

NotRunning ==
    /\ default_list_id = FALSE
    /\ tool = "none"
    /\ args = DefaultArgs
    /\ phase = "done"
    /\ op = "none"
    /\ stage = "first"
    /\ w = IdleCall
    /\ elapsed = 0
    /\ opres = NoResult
    /\ envelope = NoEnvelope
    /\ opCalls = 0
    /\ failure = ""

Finish(res) ==
    /\ phase' = "done"
    /\ opres' = res
    /\ envelope' = IF res.kind = "return"
                   THEN ToolReturn(tool, res)
                   ELSE ToolExcept(tool, res)

\* The tool is called: its own checks, then the client method up to its
\* first remote call.
Invoke ==
    /\ phase = "start"
    /\ LET pre == ToolPrecheck(tool, args, default_list_id)
           val == OpValidate(ToolOp(tool), args)
       IN  IF pre # ""
           THEN /\ phase' = "done"
                /\ envelope' = ToolEarly(pre)
                /\ UNCHANGED <<op, w, opres>>
           ELSE IF val # ""
           THEN /\ Finish(Result("ValueError", "", val, "", FALSE, 0))
                /\ op' = ToolOp(tool)
                /\ UNCHANGED w
           ELSE /\ phase' = "remote"
                /\ op' = ToolOp(tool)
                /\ w' = StartCall
                /\ UNCHANGED <<opres, envelope>>
    /\ UNCHANGED <<retry_count, itemVars, schemaVars, columnVars, helperVars, normVars, listVars, condVars, inv, filterVars, default_list_id, tool, args, stage,
                   elapsed, opCalls, failure>>

\* client.api_call answers r
Respond(r) ==
    /\ phase = "remote"
    /\ w.pc = "call"
    /\ w' = RetryAttempt(w, r)
    /\ opCalls' = opCalls + 1
    /\ UNCHANGED <<retry_count, itemVars, schemaVars, columnVars, helperVars, normVars, listVars, condVars, inv, filterVars, default_list_id, tool, args, phase, op,
                   stage, elapsed, opres, envelope, failure>>

\* the backoff sleep ends
WakeUp ==
    /\ phase = "remote"
    /\ w.pc = "sleep"
    /\ w' = RetryWake(w)
    /\ elapsed' = IF tool = "wait_for_export" THEN elapsed + w.delay ELSE elapsed
    /\ UNCHANGED <<retry_count, itemVars, schemaVars, columnVars, helperVars, normVars, listVars, condVars, inv, filterVars, default_list_id, tool, args, phase, op,
                   stage, opres, envelope, opCalls, failure>>

\* line 1288: if elapsed >= timeout
TimedOut_gt(waited, timeout) == waited > timeout

TimedOut(waited, timeout) == waited >= timeout

\* _call_with_retry has returned or raised: the client method goes on, and
\* with it wait_for_export (slack_client.py lines 1280-1295) and
\* get_list_structure (server.py lines 571-585).
Resume ==
    /\ phase = "remote"
    /\ w.pc \in {"returned", "raised"}
    /\ LET cr == ClientResult(op, stage, w)
       IN  /\ failure' = IF failure = "" /\ (w.pc = "raised" \/ ~w.out.ok)
                         THEN w.out.code
                         ELSE failure
           /\ IF cr.kind = "call"
              THEN /\ stage' = "second"
                   /\ w' = StartCall
                   /\ UNCHANGED <<phase, op, opres, envelope>>
              ELSE IF /\ tool = "get_list_structure"
                      /\ op = "list_items"
                      /\ cr.kind = "return"
                      /\ cr.items > 0
              THEN /\ op' = "get_item"
                   /\ w' = StartCall
                   /\ UNCHANGED <<phase, stage, opres, envelope>>
              ELSE IF /\ tool = "wait_for_export"
                      /\ cr.kind = "return"
                      /\ ~(cr.status = "completed" /\ cr.url)
              THEN IF TimedOut(elapsed, args.timeout)
                   THEN /\ Finish(Result("TimeoutError", "", "did not complete",
                                         cr.status, FALSE, 0))
                        /\ UNCHANGED <<op, stage, w>>
                   ELSE /\ phase' = "pollsleep"
                        /\ UNCHANGED <<op, stage, w, opres, envelope>>
              ELSE /\ Finish(cr)
                   /\ UNCHANGED <<op, stage, w>>
    /\ UNCHANGED <<retry_count, itemVars, schemaVars, columnVars, helperVars, normVars, listVars, condVars, inv, filterVars, default_list_id, tool, args, elapsed,
                   opCalls>>

\* asyncio.sleep(poll_interval) ends: wait_for_export polls again
PollWake ==
    /\ phase = "pollsleep"
    /\ phase' = "remote"
    /\ w' = StartCall
    /\ elapsed' = elapsed + poll_interval
    /\ UNCHANGED <<retry_count, itemVars, schemaVars, columnVars, helperVars, normVars, listVars, condVars, inv, filterVars, default_list_id, tool, args, op, stage,
                   opres, envelope, opCalls, failure>>

Init ==
    /\ retry_count \in 0..MaxRetry
    /\ inv = [p \in Tasks |-> IdleCall]
    /\ NoItemBuilder
    /\ NoSchemaBuilder
    /\ NoColumnBuilder
    /\ NoHelperCall
    /\ NoNormalizing
    /\ NoListing
    /\ NoConditionCall
    /\ NoFilterCall
    /\ default_list_id \in BOOLEAN
    /\ tool \in Tools
    /\ args \in ArgsFor(tool)
    /\ phase = "start"
    /\ op = "none"
    /\ stage = "first"
    /\ w = IdleCall
    /\ elapsed = 0
    /\ opres = NoResult
    /\ envelope = NoEnvelope
    /\ opCalls = 0
    /\ failure = ""

Next ==
    \/ Invoke
    \/ \E r \in RunResponses : Respond(r)
    \/ WakeUp
    \/ Resume
    \/ PollWake

Spec == Init /\ [][Next]_vars

\* Runs of wait_for_export alone.  Every step of such a run ends on its
\* own (client.api_call answers, asyncio.sleep returns, a coroutine that
\* can go on is scheduled), which is the fairness stated.
InitExport == Init /\ tool = "wait_for_export"

SpecExport == InitExport /\ [][Next]_vars /\ WF_vars(Next)

-----------------------------------------------------------------------------
(* Properties of one _call_with_retry invocation, checked on the invocation *)
(* w of a tool run (Spec).                                                  *)

AnyRespond == \E r \in RunResponses : Respond(r)

\* C1: with retry budget retry_count = N, an invocation never makes more
\* than N+1 remote calls; when every attempt failed with a retryable code it
\* ends by raising the error of the last attempt after exactly N+1 calls and
\* exactly N sleeps.
C1_ExhaustedBudget ==
    /\ w.calls <= retry_count + 1
    /\ (w.fails = retry_count + 1) => w.pc = "raised"
    /\ (w.pc \in {"returned", "raised"} /\ w.calls > 0 /\ w.fails = w.calls) =>
          /\ w.pc = "raised"
          /\ w.calls = retry_count + 1
          /\ w.sleeps = retry_count
          /\ w.out = w.last

C1_Witness ==
    /\ retry_count >= 2
    /\ w.pc = "raised"
    /\ w.fails = w.calls
    /\ w.calls = retry_count + 1

\* C2: a failure whose code is not retryable is raised at the attempt where
\* it occurs, also after earlier attempts were retried: the invocation is
\* over, every sleep it made came before that attempt, and neither a sleep
\* nor a remote call can follow.
C2_NonRetryablePropagates ==
    (w.last.raised /\ w.last.code \notin RETRYABLE_ERRORS) =>
        /\ w.pc = "raised"
        /\ w.out = w.last
        /\ w.sleeps = w.calls - 1
        /\ w.calls = w.fails + 1
        /\ ~ENABLED AnyRespond
        /\ ~ENABLED WakeUp

C2_Witness ==
    /\ w.pc = "raised"
    /\ w.last.code = "list_not_found"
    /\ w.calls = 2
    /\ w.calls < retry_count + 1

\* C3: the delay slept after the k-th failed attempt (k = 0, 1, ...) is 2^k
\* seconds; only for rate_limited with a Retry-After hint h it is
\* max(2^k, h); a hint on another retryable code changes nothing.
C3_BackoffDelay ==
    w.pc = "sleep" =>
        LET k == w.calls - 1
            h == w.last.hint
        IN  /\ w.sleeps = w.calls
            /\ w.delay = IF w.last.code = "rate_limited" /\ h > 0
                         THEN (IF h > 2^k THEN h ELSE 2^k)
                         ELSE 2^k

C3_Witness ==
    /\ w.pc = "sleep"
    /\ w.calls = 2
    /\ w.last = ApiError("rate_limited", 3)
    /\ w.last_exception = ApiError("internal_error", 3)
    /\ w.delay = 3

\* C4: when the first j attempts failed with retryable codes (j <=
\* retry_count) and attempt j+1 is answered without an error being raised,
\* the invocation returns that response unmodified after exactly j+1 remote
\* calls and j sleeps, and makes no further call.
C4_ReturnsResponse ==
    (w.calls > 0 /\ ~w.last.raised) =>
        /\ w.pc = "returned"
        /\ w.out = w.last
        /\ w.calls = w.fails + 1
        /\ w.sleeps = w.fails
        /\ w.fails <= retry_count
        /\ ~ENABLED AnyRespond
        /\ ~ENABLED WakeUp

C4_Witness ==
    /\ w.pc = "returned"
    /\ w.fails = 2
    /\ w.calls = 3
    /\ w.out = Returned(TRUE, "", 1, FALSE)

-----------------------------------------------------------------------------
(* Properties of the client methods and of the tools, checked on tool runs  *)
(* (Spec).                                                                  *)

\* the closed set of value keys of a field
ValueKeys == supported_field_types \cup {"vote", "canvas"}

\* The calls that fail local validation.  The fields of add_item are
\* validated only when no duplicated_item_id is given (with one the fields
\* are not sent).
LocallyInvalid ==
    \/ tool \in ItemTools /\ ~args.list_id /\ ~default_list_id
    \/ /\ tool = "add_list_item"
       /\ ~args.dup
       /\ \/ Len(args.fields) = 0
          \/ \E i \in 1..Len(args.fields) :
                \/ "column_id" \notin args.fields[i]
                \/ args.fields[i] \cap ValueKeys = {}
    \/ /\ tool = "update_list_item"
       /\ \/ Len(args.cells) = 0
          \/ \E i \in 1..Len(args.cells) :
                args.cells[i] \cap {"row_id", "row_id_to_create"} = {}
    \/ tool = "delete_list_items" /\ args.ids = 0
    \/ /\ tool = "set_list_access"
       /\ \/ args.users = args.channels
          \/ args.level \notin {"read", "write", "owner"}
          \/ args.level = "owner" /\ args.channels
    \/ tool = "delete_list_access" /\ args.users = args.channels
    \/ tool = "update_list" /\ args.changes = {}

\* C6: a call that fails local validation fails before any remote call is
\* issued, and nothing is retried: once the tool has run it is over, no
\* _call_with_retry invocation was started, no remote call was made, and
\* the result is a failure (a ValueError of the client, or the tool's own
\* error envelope).
C6_ValidationBeforeRemote ==
    (LocallyInvalid /\ phase # "start") =>
        /\ phase = "done"
        /\ opCalls = 0
        /\ w = IdleCall
        /\ opres.kind \in {"none", "ValueError"}
        /\ ~envelope.success
        /\ "error" \in envelope.keys

C6_Witness ==
    /\ phase = "done"
    /\ tool = "add_list_item"
    /\ Len(args.fields) = 2
    /\ args.fields[1] = {"column_id", "text"}
    /\ args.fields[2] = {"text"}
    /\ opres.kind = "ValueError"
    /\ opCalls = 0

\* the message _handle_api_error is to derive from a code
TableText(code) ==
    IF code \in DOMAIN ERROR_MESSAGES THEN ERROR_MESSAGES[code] ELSE code

\* C7: no remote error is swallowed: when a remote call of a run ended in
\* failure (a raised error not retried, or a response with ok = false), the
\* client method fails, with the table text of the error code (or the code
\* itself) as its message.
C7_NoErrorSwallowed ==
    (phase = "done" /\ failure # "") =>
        /\ opres.kind = "Exception"
        /\ opres.text = TableText(failure)
        /\ ~envelope.success

\* C8: every tool, whatever the client did, returns a mapping with a
\* boolean "success" and never raises; the mapping has an "error" exactly
\* when success is false.  Before the tool is done nothing was returned.
C8_UniformEnvelope ==
    /\ ~envelope.raised
    /\ envelope.success \in BOOLEAN
    /\ phase # "done" => envelope = NoEnvelope
    /\ phase = "done" =>
          /\ "success" \in envelope.keys
          /\ ("error" \in envelope.keys) <=> ~envelope.success
          /\ envelope.success <=> opres.kind = "return"

C8_Witness ==
    /\ phase = "done"
    /\ tool = "wait_for_export"
    /\ opres.kind = "TimeoutError"
    /\ opres.status = "processing"
    /\ envelope.status = "timeout"
    /\ opCalls >= 2

\* C16: a result of get_export_url has status completed exactly when the
\* response carried a non-empty download_url, and processing otherwise, so
\* a download_url never comes with another status; a result of
\* start_export has status started whatever the response carried.
C16_ExportStatus ==
    (phase = "done" /\ opres.kind = "return") =>
        /\ op = "get_export_url" =>
              /\ opres.status \in {"completed", "processing"}
              /\ opres.status = "completed" <=> w.out.url
              /\ opres.url = w.out.url
              /\ opres.url => opres.status = "completed"
        /\ op = "start_export" => opres.status = "started"

C16_Witness ==
    /\ phase = "done"
    /\ tool = "get_list_export_url"
    /\ opres.kind = "return"
    /\ opres.status = "processing"
    /\ w.out.ok /\ ~w.out.url
    /\ w.calls = 2

\* what C17 says of every state of a wait_for_export run
WaitForExportSafe ==
    tool = "wait_for_export" =>
        \* between two polls: the timeout is not reached, no remote call is
        \* made during the sleep, and the sleep ends in one new poll
        /\ phase = "pollsleep" =>
              /\ elapsed < args.timeout
              /\ opCalls >= 1
              /\ ~ENABLED AnyRespond
              /\ ENABLED PollWake
        /\ phase = "done" =>
              /\ opCalls >= 1
              /\ opres.kind \in {"return", "TimeoutError", "Exception"}
              /\ opres.kind = "return" =>
                    /\ opres.status = "completed" /\ opres.url
                    /\ envelope.success /\ envelope.status = "completed"
              /\ opres.kind = "TimeoutError" =>
                    /\ elapsed >= args.timeout
                    /\ w.pc = "returned" /\ w.out.ok /\ ~w.out.url
                    /\ opres.status = "processing"
                    /\ ~envelope.success /\ envelope.status = "timeout"
              /\ opres.kind = "Exception" =>
                    /\ envelope.status # "timeout"
                    /\ "status" \notin envelope.keys

\* C17: wait_for_export polls at least once, and again after each
\* poll_interval sleep; it returns only a completed result with a
\* download_url; at the first poll that is not completed and after which
\* the elapsed time has reached the timeout it fails with a TimeoutError
\* carrying the last status, which the tool reports as status timeout, not
\* as a generic failure; and every run ends.
C17_WaitForExport == []WaitForExportSafe /\ <>(phase = "done")

\* timeout 3: polls at 0 and 2 seconds are below it, the poll at 4 is not
C17_Witness ==
    /\ tool = "wait_for_export"
    /\ phase = "done"
    /\ args.timeout = 3
    /\ elapsed = 4
    /\ opCalls = 3
    /\ opres.kind = "TimeoutError"
    /\ opres.status = "processing"
    /\ envelope.status = "timeout"

\* C18: every cell of a request update_item sends has exactly one of row_id
\* and row_id_to_create: true (a cell with both, or with neither, is
\* rejected before the remote call).
C18_ExactlyOneRowKey ==
    (tool = "update_list_item" /\ opCalls > 0) =>
        \A i \in 1..Len(SentCells(args)) :
            ("row_id" \in SentCells(args)[i])
                # ("row_id_to_create" \in SentCells(args)[i])

\* C19: add_item rejects no field on account of its value key: when every
\* field given has a column_id and a value key (a tag of the closed set or
\* any other), the call is not refused with a ValueError.
C19_NoRejectionByValueKey ==
    ( /\ tool = "add_list_item"
      /\ phase = "done"
      /\ op = "add_item"
      /\ ~args.dup
      /\ Len(args.fields) > 0
      /\ \A i \in 1..Len(args.fields) :
            /\ "column_id" \in args.fields[i]
            /\ args.fields[i] \ {"column_id"} # {} )
    => opres.kind # "ValueError"

-----------------------------------------------------------------------------
(* Concurrent invocations: every task runs its own _call_with_retry on the  *)
(* one event loop.  client.api_call is synchronous, so an attempt is one    *)
(* step; await asyncio.sleep hands the loop to the other tasks.             *)

ConcResponses ==
    { Returned(TRUE, "", 0, FALSE),
      ApiError("rate_limited", 3),
      ApiError("internal_error", 0),
      ApiError("list_not_found", 0) }

SleepSuspends_blocking(sleeper, other) == TRUE

\* line 147: await asyncio.sleep(delay) suspends the awaiting task only
SleepSuspends(sleeper, other) == sleeper = other

Runnable(p) ==
    \A q \in Tasks : inv[q].pc = "sleep" /\ q # p => ~SleepSuspends(q, p)

Start(p) ==
    /\ inv[p].pc = "idle"
    /\ Runnable(p)
    /\ inv' = [inv EXCEPT ![p] = StartCall]
    /\ UNCHANGED <<retry_count, itemVars, schemaVars, columnVars, helperVars, normVars, listVars, condVars, runVars, filterVars>>

Attempt(p, r) ==
    /\ inv[p].pc = "call"
    /\ Runnable(p)
    /\ inv' = [inv EXCEPT ![p] = RetryAttempt(inv[p], r)]
    /\ UNCHANGED <<retry_count, itemVars, schemaVars, columnVars, helperVars, normVars, listVars, condVars, runVars, filterVars>>

Wake(p) ==
    /\ inv[p].pc = "sleep"
    /\ inv' = [inv EXCEPT ![p] = RetryWake(inv[p])]
    /\ UNCHANGED <<retry_count, itemVars, schemaVars, columnVars, helperVars, normVars, listVars, condVars, runVars, filterVars>>

InitConc ==
    /\ retry_count \in 0..MaxRetry
    /\ inv = [p \in Tasks |-> IdleCall]
    /\ NoItemBuilder
    /\ NoSchemaBuilder
    /\ NoColumnBuilder
    /\ NoHelperCall
    /\ NoNormalizing
    /\ NoListing
    /\ NoConditionCall
    /\ NoFilterCall
    /\ NotRunning

NextConc ==
    \E p \in Tasks :
        \/ Start(p)
        \/ \E r \in ConcResponses : Attempt(p, r)
        \/ Wake(p)

SpecConc == InitConc /\ [][NextConc]_vars

AnyAttempt(p) == \E r \in ConcResponses : Attempt(p, r)

\* C5: with several invocations in flight and their attempts and sleeps
\* interleaved in any order, each invocation makes at most retry_count + 1
\* remote calls, its attempt counter is the number of its own calls, its
\* outcome is the response to its own last call, and a task that is sleeping
\* between retries never keeps another task from starting or from making
\* its next attempt.
C5_IndependentInvocations ==
    \A p \in Tasks :
        LET c == inv[p]
        IN  /\ c.calls <= retry_count + 1
            /\ c.pc \in {"idle", "call"} => c.attempt = c.calls
            /\ c.pc \in {"sleep", "returned", "raised"} => c.attempt = c.calls - 1
            /\ c.sleeps = (IF c.pc = "raised" /\ c.fails = c.calls
                           THEN c.fails - 1 ELSE c.fails)
            /\ c.pc = "returned" => c.out = c.last /\ ~c.last.raised
            /\ c.pc = "raised" =>
                  /\ c.out = c.last
                  /\ c.last.raised
                  /\ c.last.code \in RETRYABLE_ERRORS => c.calls = retry_count + 1
            /\ (c.pc = "idle" /\ \E q \in Tasks \ {p} : inv[q].pc = "sleep")
                  => ENABLED Start(p)
            /\ (c.pc = "call" /\ \E q \in Tasks \ {p} : inv[q].pc = "sleep")
                  => ENABLED AnyAttempt(p)

C5_Witness ==
    /\ inv[1].pc = "sleep"
    /\ inv[1].attempt = 0
    /\ inv[2].pc = "call"
    /\ inv[2].attempt = 1

-----------------------------------------------------------------------------
(* The client-side filter matcher: _matches_filters and what it calls       *)
(* (slack_client.py lines 732-876).                                         *)
(*                                                                          *)
(* A value is None, a string, a number or a list of strings and numbers.    *)
(* A string is kept as its sequence of characters, a number as the          *)
(* characters str() gives for it, so that lower() and the substring test    *)
(* are computed on the text.                                                *)

MaxItemFields == 2      \* an item has up to MaxItemFields fields

None == [t |-> "none", s |-> <<>>, l |-> <<>>]
StrVal(chars) == [t |-> "str", s |-> chars, l |-> <<>>]
NumVal(digits) == [t |-> "num", s |-> digits, l |-> <<>>]
ListVal(elems) == [t |-> "list", s |-> <<>>, l |-> elems]

\* str.lower()
LowerChar(ch) ==
    CASE ch = "A" -> "a"
      [] ch = "B" -> "b"
      [] OTHER -> ch

Lower(chars) == [i \in 1..Len(chars) |-> LowerChar(chars[i])]

\* str(v) of a string or a number
Str(v) == v.s

\* needle in hay, for two strings
Substring(needle, hay) ==
    \E i \in 0..(Len(hay) - Len(needle)) :
        SubSeq(hay, i + 1, i + Len(needle)) = needle

\* compares a one-element list as it is
ValuesEqual_direct(value, expected) == value = expected

\* lines 856-860
ValuesEqual(value, expected) ==
    IF value.t = "list" /\ Len(value.l) = 1
    THEN value.l[1] = expected
    ELSE value = expected

\* lines 862-870: search.lower() fails when search is not a string; it is
\* evaluated unless value is None or an empty list.
ValueContainsRaises(value, search) ==
    /\ search.t # "str"
    /\ value.t # "none"
    /\ ~(value.t = "list" /\ Len(value.l) = 0)

ValueContains(value, search) ==
    CASE value.t = "none" -> FALSE
      [] value.t = "str" -> Substring(Lower(search.s), Lower(value.s))
      [] value.t = "list" ->
           \E i \in 1..Len(value.l) :
               Substring(Lower(search.s), Lower(Str(value.l[i])))
      [] OTHER -> Substring(Lower(search.s), Lower(Str(value)))

\* asks every element of a list value to be listed
ValueInList_all(value, expected_list) ==
    IF value.t = "list"
    THEN \A i \in 1..Len(value.l) :
             \E j \in 1..Len(expected_list.l) :
                 value.l[i] = expected_list.l[j]
    ELSE \E j \in 1..Len(expected_list.l) : value = expected_list.l[j]

\* lines 872-876
ValueInList(value, expected_list) ==
    IF value.t = "list"
    THEN \E i \in 1..Len(value.l) :
             \E j \in 1..Len(expected_list.l) :
                 value.l[i] = expected_list.l[j]
    ELSE \E j \in 1..Len(expected_list.l) : value = expected_list.l[j]

\* lines 834-854: the operators of a condition in the order of the mapping;
\* an operator that is none of the six is passed over.
\* The outcome is "true", "false" or "raise".
RECURSIVE ApplyFilterCondition(_, _)
ApplyFilterCondition(value, condition) ==
    IF condition = <<>> THEN "true"
    ELSE LET operator == Head(condition)[1]
             expected == Head(condition)[2]
             rest == ApplyFilterCondition(value, Tail(condition))
         IN  CASE operator = "equals" ->
                    IF ~ValuesEqual(value, expected) THEN "false" ELSE rest
               [] operator = "not_equals" ->
                    IF ValuesEqual(value, expected) THEN "false" ELSE rest
               [] operator = "contains" ->
                    IF ValueContainsRaises(value, expected) THEN "raise"
                    ELSE IF ~ValueContains(value, expected) THEN "false"
                    ELSE rest
               [] operator = "not_contains" ->
                    IF ValueContainsRaises(value, expected) THEN "raise"
                    ELSE IF ValueContains(value, expected) THEN "false"
                    ELSE rest
               [] operator = "in" ->
                    IF ~ValueInList(value, expected) THEN "false" ELSE rest
               [] operator = "not_in" ->
                    IF ValueInList(value, expected) THEN "false" ELSE rest
               [] OTHER -> rest

\* lines 783-821
SlotOrder ==
    <<"checkbox", "select", "user", "date", "text", "number", "email",
      "phone", "attachment", "link", "message", "rating", "timestamp",
      "channel", "reference", "vote", "canvas", "rich_text", "value">>

RECURSIVE FirstSlot(_, _)
FirstSlot(field, order) ==
    IF order = <<>> THEN None
    ELSE IF Head(order) \in DOMAIN field THEN field[Head(order)]
    ELSE FirstSlot(field, Tail(order))

ExtractFieldValue(field) == FirstSlot(field, SlotOrder)

\* lines 755-758: field.get("column_id") == filter_key
\*                or field.get("key") == filter_key
FieldHasKey(field, filter_key) ==
    \/ "column_id" \in DOMAIN field /\ field["column_id"] = filter_key
    \/ "key" \in DOMAIN field /\ field["key"] = filter_key

\* line 750: matched = False, what the loop over the fields is left with
\* when no field satisfied the condition
Unmatched_null(filter_condition) ==
    ApplyFilterCondition(None, filter_condition)

Unmatched(filter_condition) == "false"

\* lines 753-764, the loop over the fields for one filter key: "true" when
\* it ends with matched = True, "false" with matched = False, "raise" when
\* applying the condition raised.
RECURSIVE FieldLoop_first(_, _, _)
FieldLoop_first(fields, filter_key, filter_condition) ==
    IF fields = <<>> THEN Unmatched(filter_condition)
    ELSE IF FieldHasKey(Head(fields), filter_key)
         THEN ApplyFilterCondition(ExtractFieldValue(Head(fields)),
                                   filter_condition)
         ELSE FieldLoop_first(Tail(fields), filter_key, filter_condition)

RECURSIVE FieldLoop(_, _, _)
FieldLoop(fields, filter_key, filter_condition) ==
    IF fields = <<>> THEN Unmatched(filter_condition)
    ELSE LET field == Head(fields)
             more == FieldLoop(Tail(fields), filter_key, filter_condition)
         IN  IF FieldHasKey(field, filter_key)
             THEN LET applied ==
                        ApplyFilterCondition(ExtractFieldValue(field),
                                             filter_condition)
                  IN  IF applied = "false" THEN more ELSE applied
             ELSE more

\* lines 747-770: the filter keys in the order of the mapping, return False
\* at the first key that no field matched
RECURSIVE MatchesFilters(_, _)
MatchesFilters(it, fs) ==
    IF fs = <<>> THEN "true"
    ELSE LET matched == FieldLoop(it.fields, Head(fs)[1], Head(fs)[2])
         IN  IF matched = "true" THEN MatchesFilters(it, Tail(fs))
             ELSE matched

(* Inputs *)

FilterKeys == {"k1", "k2"}

FieldIdents ==
    { [key |-> "k1"],
      [column_id |-> "k1"],
      [column_id |-> "k2", key |-> "k1"],
      [name |-> "k2"] }

FieldSlots ==
    { [select |-> ListVal(<<StrVal(<<"a">>)>>)],
      [text |-> StrVal(<<"A", "b">>), value |-> StrVal(<<"a">>)],
      [unknown |-> StrVal(<<"a">>)] }

FilterFields == { id @@ sl : id \in FieldIdents, sl \in FieldSlots }

Items == { [fields |-> f] : f \in SeqsUpTo(FilterFields, MaxItemFields) }

Conditions ==
    { <<>>,
      << <<"equals", StrVal(<<"a">>)>> >>,
      << <<"not_equals", StrVal(<<"a">>)>> >>,
      << <<"contains", StrVal(<<"a", "B">>)>> >>,
      << <<"not_contains", StrVal(<<"b">>)>> >>,
      << <<"in", ListVal(<<StrVal(<<"b">>), StrVal(<<"a">>)>>)>> >>,
      << <<"not_in", ListVal(<<StrVal(<<"a">>)>>)>> >>,
      << <<"contains", NumVal(<<"5">>)>> >>,
      << <<"not_contains", NumVal(<<"5">>)>> >>,
      << <<"not_equals", StrVal(<<"b">>)>>, <<"contains", NumVal(<<"5">>)>> >>,
      << <<"matches", StrVal(<<"a">>)>>, <<"equals", None>> >> }

\* the filter sets: mappings from distinct keys to conditions, in the order
\* of insertion
FilterSets ==
    {<<>>}
      \cup { << <<k, c>> >> : k \in FilterKeys, c \in Conditions }
      \cup { << <<k1, c1>>, <<k2, c2>> >> :
                 <<k1, k2>> \in { kk \in FilterKeys \X FilterKeys :
                                     kk[1] # kk[2] },
                 <<c1, c2>> \in Conditions \X Conditions }

(* One call of _matches_filters *)

CallMatchesFilters ==
    /\ result = "none"
    /\ result' = MatchesFilters(item, filters)
    /\ UNCHANGED <<retry_count, itemVars, schemaVars, columnVars, helperVars, normVars, listVars, condVars, inv, runVars, item, filters>>

InitFilter ==
    /\ retry_count = 0
    /\ inv = [p \in Tasks |-> IdleCall]
    /\ NoItemBuilder
    /\ NoSchemaBuilder
    /\ NoColumnBuilder
    /\ NoHelperCall
    /\ NoNormalizing
    /\ NoListing
    /\ NoConditionCall
    /\ NotRunning
    /\ item \in Items
    /\ filters \in FilterSets
    /\ result = "none"

NextFilter == CallMatchesFilters

SpecFilter == InitFilter /\ [][NextFilter]_vars

(* Properties of the filter matcher, checked on SpecFilter. *)

\* a condition whose contains / not_contains operand is a string
WellTypedCondition(condition) ==
    \A n \in 1..Len(condition) :
        condition[n][1] \in {"contains", "not_contains"} =>
            condition[n][2].t = "str"

\* some field of the item has the filter key as its column_id or its key
\* and a value that satisfies the condition
SomeFieldSatisfies(filter_key, condition) ==
    \E j \in 1..Len(item.fields) :
        LET field == item.fields[j]
        IN  /\ \/ "column_id" \in DOMAIN field /\ field["column_id"] = filter_key
               \/ "key" \in DOMAIN field /\ field["key"] = filter_key
            /\ ApplyFilterCondition(ExtractFieldValue(field), condition) = "true"

EveryKeySatisfied ==
    \A n \in 1..Len(filters) : SomeFieldSatisfies(filters[n][1], filters[n][2])

\* C9: _matches_filters(item, filters) is true iff for every filter key some
\* field of the item with that column_id or key satisfies the key's
\* condition; an empty filter set matches every item.  "Only if" holds for
\* every filter set; "if" for the filter sets whose contains operands are
\* strings, for which the call never raises.
C9_MatchesIffEveryKeySatisfied ==
    result # "none" =>
        /\ result = "true" => EveryKeySatisfied
        /\ (\A n \in 1..Len(filters) : WellTypedCondition(filters[n][2])) =>
              /\ result \in {"true", "false"}
              /\ result = "true" <=> EveryKeySatisfied
        /\ filters = <<>> => result = "true"

\* two keys; the first field with k1 fails its condition, a later one
\* satisfies it
C9_Witness ==
    /\ result = "true"
    /\ Len(filters) = 2
    /\ filters[1] = <<"k1", << <<"contains", StrVal(<<"a", "B">>)>> >> >>
    /\ filters[2][2] = << <<"not_in", ListVal(<<StrVal(<<"a">>)>>)>> >>
    /\ Len(item.fields) = 2
    /\ item.fields[1] = [key |-> "k1", select |-> ListVal(<<StrVal(<<"a">>)>>)]
    /\ item.fields[2] = [column_id |-> "k2", key |-> "k1",
                         text |-> StrVal(<<"A", "b">>),
                         value |-> StrVal(<<"a">>)]

\* no field of the item has the filter key as its column_id or its key
FieldMissing(filter_key) ==
    \A j \in 1..Len(item.fields) :
        /\ ~("column_id" \in DOMAIN item.fields[j]
               /\ item.fields[j]["column_id"] = filter_key)
        /\ ~("key" \in DOMAIN item.fields[j]
               /\ item.fields[j]["key"] = filter_key)

\* C10: when the item has no field for some filter key, the call returns
\* False and does not raise, whatever the operators and operands of that
\* key's condition (negative operators, an operand contains cannot be
\* applied to), the conditions of the other keys being well typed.
C10_MissingFieldRejects ==
    result # "none" =>
        \A n \in 1..Len(filters) :
            ( /\ FieldMissing(filters[n][1])
              /\ \A m \in 1..Len(filters) :
                    m # n => WellTypedCondition(filters[m][2]) )
            => result = "false"

\* the field for k1 satisfies its condition, no field has k2, and the
\* condition of k2 is a negative operator with an operand that raises on
\* any present value
C10_Witness ==
    /\ result = "false"
    /\ Len(item.fields) = 2
    /\ filters = << <<"k1", << <<"not_equals", StrVal(<<"a">>)>> >> >>,
                    <<"k2", << <<"not_contains", NumVal(<<"5">>)>> >> >> >>
    /\ FieldMissing("k2")
    /\ SomeFieldSatisfies("k1", filters[1][2])

-----------------------------------------------------------------------------
(* One call of _apply_filter_condition on an extracted value                *)
(* (slack_client.py lines 823-876).                                         *)

MaxListLen == 2      \* a list value has up to MaxListLen elements

\* one number only: 5 == 5.0 in Python, which the text of a number does
\* not decide
Scalars == {StrVal(<<"a">>), StrVal(<<"b">>), NumVal(<<"5">>)}

Lists == { ListVal(l) : l \in SeqsUpTo(Scalars, MaxListLen) }

Values == {None} \cup Scalars \cup Lists

\* conditions of one operator: equals and not_equals with any expected
\* value, in and not_in with an expected list, contains and not_contains
\* with a needle; and conditions of two operators
SingleConditions ==
    { << <<o, e>> >> : o \in {"equals", "not_equals"}, e \in Values }
      \cup { << <<o, e>> >> : o \in {"in", "not_in"}, e \in Lists }
      \cup { << <<o, e>> >> : o \in {"contains", "not_contains"},
                              e \in {StrVal(<<"A">>), NumVal(<<"5">>)} }

PairConditions ==
    { << <<"equals", StrVal(<<"a">>)>>, <<"in", e>> >> :
          e \in {ListVal(<<>>), ListVal(<<StrVal(<<"a">>)>>)} }
      \cup { << <<"not_in", ListVal(<<StrVal(<<"b">>)>>)>>,
                <<"not_equals", e>> >> :
                 e \in {StrVal(<<"a">>), ListVal(<<StrVal(<<"a">>)>>)} }

CallApplyFilterCondition ==
    /\ holds = "none"
    /\ holds' = ApplyFilterCondition(cvalue, ccond)
    /\ UNCHANGED <<retry_count, itemVars, schemaVars, columnVars, helperVars, normVars, listVars, inv, runVars, filterVars, cvalue, ccond>>

InitCondition ==
    /\ retry_count = 0
    /\ inv = [p \in Tasks |-> IdleCall]
    /\ NoItemBuilder
    /\ NoSchemaBuilder
    /\ NoColumnBuilder
    /\ NoHelperCall
    /\ NoNormalizing
    /\ NoListing
    /\ NotRunning
    /\ NoFilterCall
    /\ cvalue \in Values
    /\ ccond \in SingleConditions \cup PairConditions
    /\ holds = "none"

NextCondition == CallApplyFilterCondition

SpecCondition == InitCondition /\ [][NextCondition]_vars

(* Properties of the operators, checked on SpecCondition. *)

\* the condition is the single operator o
OnlyOperator(o) == holds # "none" /\ Len(ccond) = 1 /\ ccond[1][1] = o

\* the extracted value equals the expected value e, a one-element array
\* standing for its sole element
EqualsExpected(e) ==
    CASE cvalue.t = "list" /\ Len(cvalue.l) = 1 -> cvalue.l[1] = e
      [] cvalue.t = "list" /\ Len(cvalue.l) # 1 ->
           e.t = "list" /\ e.l = cvalue.l
      [] OTHER -> e.t = cvalue.t /\ e.s = cvalue.s /\ e.l = <<>>

\* C11: equals holds iff the extracted value, a one-element array replaced
\* by its sole element, equals the expected value (a scalar, an empty or a
\* longer array is compared as it is); not_equals holds iff equals does
\* not; neither raises.
C11_EqualsUnwrapsSingleton ==
    /\ OnlyOperator("equals") =>
          /\ holds \in {"true", "false"}
          /\ holds = "true" <=> EqualsExpected(ccond[1][2])
    /\ OnlyOperator("not_equals") =>
          /\ holds \in {"true", "false"}
          /\ holds = "true" <=> ~EqualsExpected(ccond[1][2])

\* a one-element array is not equal to the same array, only to its element
C11_Witness ==
    /\ holds = "true"
    /\ cvalue = ListVal(<<StrVal(<<"a">>)>>)
    /\ ccond = << <<"not_equals", ListVal(<<StrVal(<<"a">>)>>)>> >>

\* x is a member of the expected list e
Listed(x, e) == \E j \in 1..Len(e.l) : e.l[j] = x

\* C12: in holds iff the scalar value is a member of the expected list or,
\* for an array value, some element is; not_in holds iff in does not: an
\* array with a listed and an unlisted element fails not_in, an empty array
\* satisfies it.
C12_InAnyElement ==
    /\ OnlyOperator("in") =>
          /\ holds \in {"true", "false"}
          /\ holds = "true" <=>
                IF cvalue.t = "list"
                THEN \E i \in 1..Len(cvalue.l) : Listed(cvalue.l[i], ccond[1][2])
                ELSE Listed(cvalue, ccond[1][2])
    /\ OnlyOperator("not_in") =>
          /\ holds \in {"true", "false"}
          /\ holds = "true" <=>
                IF cvalue.t = "list"
                THEN \A i \in 1..Len(cvalue.l) : ~Listed(cvalue.l[i], ccond[1][2])
                ELSE ~Listed(cvalue, ccond[1][2])
          /\ (cvalue.t = "list" /\ Len(cvalue.l) = 0) => holds = "true"
          /\ ( /\ cvalue.t = "list"
               /\ \E i \in 1..Len(cvalue.l) : Listed(cvalue.l[i], ccond[1][2])
               /\ \E i \in 1..Len(cvalue.l) : ~Listed(cvalue.l[i], ccond[1][2]) )
             => holds = "false"

C12_Witness ==
    /\ holds = "false"
    /\ cvalue = ListVal(<<StrVal(<<"b">>), StrVal(<<"a">>)>>)
    /\ ccond = << <<"not_in", ListVal(<<StrVal(<<"a">>)>>)>> >>

-----------------------------------------------------------------------------
(* Listing: list_items and iter_all_items (slack_client.py lines 592-730).  *)
(* iter_all_items calls list_items page after page; each call sends one     *)
(* slackLists.items.list request, which the server answers with a page of   *)
(* items and a next_cursor ("" when there is no further page).              *)

MaxLimit == 2        \* limit ranges over 1..MaxLimit
MaxPageLen == 2      \* the server returns up to MaxPageLen items in a page
MaxPages == 2        \* the server's cursor is empty from page MaxPages on

Min(a, b) == IF a <= b THEN a ELSE b

\* the cursors the server hands out
Cursors == {"c1", "c2"}

\* line 624: "limit": limit * 3 if filters else limit
RequestLimit(lmt, fs) == IF fs # <<>> THEN lmt * 3 ELSE lmt

\* lines 622-630: the request parameters; cursor is sent when it is set
ListParams(lmt, cur, fs) ==
    [limit |-> RequestLimit(lmt, fs), cursor |-> cur]

\* lines 646-647: if len(filtered_items) >= limit: break
PageFull_never(filtered_items, lmt) == FALSE

PageFull(filtered_items, lmt) == Len(filtered_items) >= lmt

\* lines 642-648: the loop over the items of the page
RECURSIVE FilterPage(_, _, _, _)
FilterPage(items, fs, lmt, filtered_items) ==
    IF items = <<>> THEN filtered_items
    ELSE IF MatchesFilters(Head(items), fs) = "true"
         THEN LET appended == Append(filtered_items, Head(items))
              IN  IF PageFull(appended, lmt) THEN appended
                  ELSE FilterPage(Tail(items), fs, lmt, appended)
         ELSE FilterPage(Tail(items), fs, lmt, filtered_items)

\* lines 637-661: what list_items returns for an ok response
ListResult(response, lmt, fs) ==
    LET items == IF fs # <<>>
                 THEN FilterPage(response.items, fs, lmt, <<>>)
                 ELSE response.items
    IN  [items |-> items,
         has_more |-> response.next_cursor # "",
         next_cursor |-> response.next_cursor,
         total |-> Len(items)]

(* Inputs *)

\* one filter set that every call is well typed for, and none
ListFilterSets ==
    { <<>>, << <<"k1", << <<"equals", StrVal(<<"a">>)>> >> >> >> }

\* the fields of an item that matches the filter set and of one that does
\* not
ListItemFields ==
    { << [key |-> "k1", select |-> ListVal(<<StrVal(<<"a">>)>>)] >>,
      << [key |-> "k1", text |-> StrVal(<<"A", "b">>),
          value |-> StrVal(<<"a">>)] >> }

\* the pages the server can give as page n to a request for up to lmt
\* items; an item's id is its page and its place in it
ServerPages(n, lmt) ==
    { [items |-> [i \in 1..k |-> [id |-> <<n, i>>, fields |-> f[i]]],
       next_cursor |-> c] :
          k \in 0..Min(lmt, MaxPageLen),
          f \in [1..MaxPageLen -> ListItemFields],
          c \in IF n >= MaxPages THEN {""} ELSE Cursors \cup {""} }

(* iter_all_items *)

\* lines 711-720: the call of list_items, up to the request it sends
IterRequest ==
    /\ lpc = "call"
    /\ requests' = Append(requests, ListParams(limit, cursor, filters))
    /\ lpc' = "await"
    /\ UNCHANGED <<retry_count, itemVars, schemaVars, columnVars, helperVars, normVars, inv, runVars, filterVars, condVars, limit,
                   cursor, pages, listed, yielded>>

\* line 728: cursor = result.get("next_cursor")
ForwardCursor_first(res) == "c1"

ForwardCursor(res) == res.next_cursor

\* lines 637-661 and 722-730: the response arrives, list_items returns,
\* the items of the result are yielded, and the loop goes on or ends
IterRespond(response) ==
    /\ lpc = "await"
    /\ pages' = Append(pages, response)
    /\ listed' = ListResult(response, limit, filters)
    /\ yielded' = yielded \o listed'.items
    /\ IF ~listed'.has_more
       THEN lpc' = "done" /\ cursor' = cursor
       ELSE /\ cursor' = ForwardCursor(listed')
            /\ lpc' = IF cursor' = "" THEN "done" ELSE "call"
    /\ UNCHANGED <<retry_count, itemVars, schemaVars, columnVars, helperVars, normVars, inv, runVars, filterVars, condVars, limit,
                   requests>>

InitList ==
    /\ retry_count = 0
    /\ inv = [p \in Tasks |-> IdleCall]
    /\ NoItemBuilder
    /\ NoSchemaBuilder
    /\ NoColumnBuilder
    /\ NoHelperCall
    /\ NoNormalizing
    /\ NotRunning
    /\ NoConditionCall
    /\ item = [fields |-> <<>>]
    /\ result = "none"
    /\ filters \in ListFilterSets
    /\ limit \in 1..MaxLimit
    /\ lpc = "call"
    /\ cursor = ""
    /\ requests = <<>>
    /\ pages = <<>>
    /\ listed = [items |-> <<>>, has_more |-> FALSE, next_cursor |-> "",
                 total |-> 0]
    /\ yielded = <<>>

NextList ==
    \/ IterRequest
    \/ /\ lpc = "await"
       /\ \E response \in ServerPages(Len(pages) + 1,
                                      requests[Len(requests)].limit) :
              IterRespond(response)

SpecList == InitList /\ [][NextList]_vars

(* Properties of listing, checked on SpecList. *)

\* the item satisfies the filter set of the run
Matching(it) == MatchesFilters(it, filters) = "true"

FirstN(seq, n) == SubSeq(seq, 1, Min(n, Len(seq)))

\* C13: list_items asks the remote for limit * 3 items when a non-empty
\* filter set is given and for limit items otherwise; with filters the
\* items it returns are the first at most limit matching items of the page,
\* in the page's order, each of them matching; total is the number of
\* items returned.
C13_ListItemsPage ==
    /\ \A n \in 1..Len(requests) :
          requests[n].limit = IF filters # <<>> THEN 3 * limit ELSE limit
    /\ pages # <<>> =>
          LET page == pages[Len(pages)].items
          IN  /\ filters # <<>> =>
                    /\ listed.items = FirstN(SelectSeq(page, Matching), limit)
                    /\ Len(listed.items) <= limit
                    /\ \A i \in 1..Len(listed.items) : Matching(listed.items[i])
              /\ filters = <<>> => listed.items = page
              /\ listed.total = Len(listed.items)

\* a page with more matching items than limit
C13_Witness ==
    /\ filters # <<>>
    /\ limit = 1
    /\ Len(pages) = 1
    /\ requests[1].limit = 3
    /\ Len(pages[1].items) = 2
    /\ Matching(pages[1].items[1]) /\ Matching(pages[1].items[2])
    /\ listed.items = <<pages[1].items[1]>>
    /\ listed.total = 1

\* C14: the first request carries no cursor, every later one the cursor of
\* the response just before it; there is one request per page; the
\* iteration is over exactly when a response came with an empty cursor, no
\* request follows such a response, and until then the iteration can go on
\* (it ends as soon as the server returns an empty cursor).
C14_CursorForwarding ==
    /\ requests # <<>> => requests[1].cursor = ""
    /\ \A n \in 2..Len(requests) :
          /\ pages[n - 1].next_cursor # ""
          /\ requests[n].cursor = pages[n - 1].next_cursor
    /\ Len(requests) \in {Len(pages), Len(pages) + 1}
    /\ \A n \in 1..(Len(pages) - 1) : pages[n].next_cursor # ""
    /\ lpc = "done" <=>
          (pages # <<>> /\ pages[Len(pages)].next_cursor = "")
    /\ lpc = "done" => Len(requests) = Len(pages)
    /\ lpc = "done" \/ ENABLED NextList

C14_Witness ==
    /\ lpc = "done"
    /\ Len(pages) = 2
    /\ pages[1].next_cursor = "c2"
    /\ requests[1].cursor = ""
    /\ requests[2].cursor = "c2"
    /\ Len(requests) = 2

\* the items of the pages received so far, in the order received
RECURSIVE PageItems(_)
PageItems(ps) ==
    IF ps = <<>> THEN <<>> ELSE Head(ps).items \o PageItems(Tail(ps))

\* C15: when the iteration is over, iter_all_items has yielded every item
\* of every page that satisfies the filters (every item without filters),
\* each once and in the order the server returned them.
C15_YieldsEveryMatchingItem ==
    lpc = "done" => yielded = SelectSeq(PageItems(pages), Matching)

-----------------------------------------------------------------------------
(* The field normalizer: _normalize_fields (slack_client.py lines 159-241). *)
(* A field is a mapping from its keys to values; the value of column_id,   *)
(* row_id and row_id_to_create is left as a string, a rich_text value is    *)
(* the list of blocks, every other value is None, a string, a number, a     *)
(* link object or a list.                                                   *)

MaxNormFields == 2     \* fields given to one _normalize_fields call

\* lines 174-189
array_field_types ==
    {"select", "user", "date", "number", "email", "phone", "attachment",
     "message", "rating", "timestamp", "channel", "reference", "vote",
     "canvas"}

\* a link object {"original_url": url}
LinkObject(url) == [t |-> "dict", s |-> url, l |-> <<>>]

\* lines 208-218: the block structure built for a text
RichText(chars) ==
    << [type |-> "rich_text",
        elements |-> << [type |-> "rich_text_section",
                         elements |-> << [type |-> "text",
                                          text |-> chars] >>] >>] >>

\* lines 197-202: a value of an array type that is not a list is wrapped
WrapArrays(field) ==
    [k \in DOMAIN field |->
        IF k \in array_field_types
        THEN IF field[k].t # "list" THEN ListVal(<<field[k]>>) ELSE field[k]
        ELSE field[k]]

\* line 205: if "text" in normalized_field and "rich_text" not in it
ConvertsText(field) ==
    "text" \in DOMAIN field /\ "rich_text" \notin DOMAIN field

\* lines 205-218: text is popped and rich_text set from str(text_value)
TextToRichText(field) ==
    IF ConvertsText(field)
    THEN [k \in (DOMAIN field \ {"text"}) \cup {"rich_text"} |->
             IF k = "rich_text" THEN RichText(Str(field["text"]))
             ELSE field[k]]
    ELSE field

\* lines 232-236: a string element becomes a link object
FormatLink(elem) == IF elem.t = "str" THEN LinkObject(elem.s) ELSE elem

\* lines 221-237
NormalizeLink(field) ==
    IF "link" \notin DOMAIN field THEN field
    ELSE LET link_value == field["link"]
         IN  [field EXCEPT !["link"] =
                 CASE link_value.t = "str" ->
                        ListVal(<<LinkObject(link_value.s)>>)
                   [] link_value.t = "dict" -> ListVal(<<link_value>>)
                   [] link_value.t = "list" ->
                        ListVal([i \in 1..Len(link_value.l) |->
                                    FormatLink(link_value.l[i])])
                   [] OTHER -> link_value]

\* lines 192-239, one field
NormalizeField(field) == NormalizeLink(TextToRichText(WrapArrays(field)))

\* lines 191-241
NormalizeFields(fields) ==
    [i \in 1..Len(fields) |-> NormalizeField(fields[i])]

\* the values a caller may give under each key: none (<<>>) or one
TextChoices == {<<>>, <<StrVal(<<"A", "b">>)>>, <<NumVal(<<"5">>)>>}
RichTextChoices == {<<>>, <<RichText(<<"b">>)>>}
SelectChoices == {<<>>, <<StrVal(<<"a">>)>>, <<ListVal(<<StrVal(<<"a">>)>>)>>}
LinkChoices ==
    {<<>>, <<StrVal(<<"u">>)>>,
     <<ListVal(<<StrVal(<<"u">>), LinkObject(<<"v">>)>>)>>}

\* the field with column_id and the chosen value keys
MakeField(text, rich_text, select, link) ==
    LET given == [k \in {"text", "rich_text", "select", "link"} |->
                     CASE k = "text" -> text
                       [] k = "rich_text" -> rich_text
                       [] k = "select" -> select
                       [] OTHER -> link]
        keys == {k \in DOMAIN given : given[k] # <<>>}
    IN  [k \in keys \cup {"column_id"} |->
            IF k = "column_id" THEN "Col1" ELSE given[k][1]]

NormFields ==
    {MakeField(t, r, s, l) : t \in TextChoices, r \in RichTextChoices,
                             s \in SelectChoices, l \in LinkChoices}

\* line 194 (and builders.py line 598): field.copy() is a new object; the
\* caller's objects are numbered 1..n, the copies n+1..2n
FieldCopy_alias(ref, n) == ref

FieldCopy(ref, n) == n + ref

\* the caller's objects after the loop has written results[i] into the
\* object FieldCopy(i, n)
CallerObjects(fields, results) ==
    [i \in 1..Len(fields) |->
        IF FieldCopy(i, Len(fields)) = i THEN results[i] ELSE fields[i]]

\* the identities of the objects appended to the result
ResultRefs(fields) ==
    [i \in 1..Len(fields) |-> FieldCopy(i, Len(fields))]

CallNormalizeFields ==
    /\ ~ndone
    /\ ncall = "normalize"
    /\ normalized' = NormalizeFields(nfields)
    /\ nrefs' = ResultRefs(nfields)
    /\ nfields' = CallerObjects(nfields, NormalizeFields(nfields))
    /\ ndone' = TRUE
    /\ UNCHANGED <<retry_count, itemVars, schemaVars, columnVars, helperVars, inv, runVars, filterVars, condVars,
                   listVars, ncall>>

\* builders.py lines 596-600: the cell made of one field of a field list
CreateCell(field) ==
    [k \in DOMAIN field \cup {"row_id_to_create"} |->
        IF k = "row_id_to_create" THEN TRUE ELSE field[k]]

\* batch_create_items([nfields]) (builders.py lines 569-601), the item
\* given as a field list
CallBatchCreateItems ==
    /\ ~ndone
    /\ ncall = "batch"
    /\ LET all_cells == [i \in 1..Len(nfields) |-> CreateCell(nfields[i])]
       IN  /\ normalized' = all_cells
           /\ nfields' = CallerObjects(nfields, all_cells)
    /\ nrefs' = ResultRefs(nfields)
    /\ ndone' = TRUE
    /\ UNCHANGED <<retry_count, itemVars, schemaVars, columnVars, helperVars, inv, runVars, filterVars, condVars,
                   listVars, ncall>>

InitNormalize ==
    /\ retry_count = 0
    /\ inv = [p \in Tasks |-> IdleCall]
    /\ NoItemBuilder
    /\ NoSchemaBuilder
    /\ NoColumnBuilder
    /\ NoHelperCall
    /\ NoListing
    /\ NotRunning
    /\ NoFilterCall
    /\ NoConditionCall
    /\ nfields \in SeqsUpTo(NormFields, MaxNormFields)
    /\ normalized = <<>>
    /\ ndone = FALSE
    /\ ncall \in {"normalize", "batch"}
    /\ nrefs = <<>>

NextNormalize == CallNormalizeFields \/ CallBatchCreateItems

SpecNormalize == InitNormalize /\ [][NextNormalize]_vars

(* Properties of the normalizer, checked on SpecNormalize. *)

\* the given text is a string
TextIsString(field) == "text" \in DOMAIN field /\ field["text"].t = "str"

\* C20: every field given with a text string X, whatever other keys it
\* carries, comes back with rich_text present and text absent, rich_text
\* being one rich_text block with one rich_text_section whose single text
\* leaf is X.
C20_TextBecomesRichText ==
    (ndone /\ ncall = "normalize") =>
        \A i \in 1..Len(nfields) :
            TextIsString(nfields[i]) =>
                /\ "rich_text" \in DOMAIN normalized[i]
                /\ "text" \notin DOMAIN normalized[i]
                /\ normalized[i]["rich_text"] = RichText(nfields[i]["text"].s)

\* the same for the fields given without a rich_text key
C20_TextAloneBecomesRichText ==
    (ndone /\ ncall = "normalize") =>
        \A i \in 1..Len(nfields) :
            (TextIsString(nfields[i]) /\ "rich_text" \notin DOMAIN nfields[i]) =>
                /\ "rich_text" \in DOMAIN normalized[i]
                /\ "text" \notin DOMAIN normalized[i]
                /\ normalized[i]["rich_text"] = RichText(nfields[i]["text"].s)

\* C24: _normalize_fields and batch_create_items leave every object the
\* caller passed in with the keys and values it had, and the list they
\* return is made of objects that are not the caller's.
C24_InputNotMutated ==
    [][/\ nfields' = nfields
       /\ \A i \in 1..Len(nrefs') : nrefs'[i] \notin 1..Len(nfields)]_vars

\* a call has returned fields or cells that differ from the ones given
C24_Witness ==
    /\ ndone
    /\ \E i \in 1..Len(nfields) : normalized[i] # nfields[i]
    /\ \E i \in 1..Len(nfields) : "text" \in DOMAIN nfields[i]

(* Fields without a known value slot, checked on SpecFilter. *)

KnownSlots == {SlotOrder[n] : n \in 1..Len(SlotOrder)}

SixOperators ==
    {"equals", "not_equals", "contains", "not_contains", "in", "not_in"}

\* the first slot of the fixed order that the field has, 0 if it has none
FirstKnownSlot(field) ==
    IF DOMAIN field \cap KnownSlots = {} THEN 0
    ELSE CHOOSE n \in 1..Len(SlotOrder) :
            /\ SlotOrder[n] \in DOMAIN field
            /\ \A m \in 1..(n - 1) : SlotOrder[m] \notin DOMAIN field

\* the value _extract_field_value is to give: none without a known slot,
\* else the value of the first slot present
ExtractsFirstSlot(field) ==
    IF FirstKnownSlot(field) = 0 THEN ExtractFieldValue(field) = None
    ELSE ExtractFieldValue(field) = field[SlotOrder[FirstKnownSlot(field)]]

\* the item has fields with this key, and none of them has a known slot
OnlySlotless(filter_key) ==
    /\ \E j \in 1..Len(item.fields) : FieldHasKey(item.fields[j], filter_key)
    /\ \A j \in 1..Len(item.fields) :
          FieldHasKey(item.fields[j], filter_key) =>
              DOMAIN item.fields[j] \cap KnownSlots = {}

\* the condition is made of the six operators, one at least
UsesSixOperators(condition) ==
    /\ condition # <<>>
    /\ \A n \in 1..Len(condition) : condition[n][1] \in SixOperators

\* the extraction half of C28
C28_ExtractionOrder ==
    \A j \in 1..Len(item.fields) : ExtractsFirstSlot(item.fields[j])

\* C28: a field with none of the known value slots yields no value and
\* cannot satisfy a condition on its key under any of the six operators;
\* with several slots present the first one in the fixed order is used.
C28_SlotlessNeverMatches ==
    /\ C28_ExtractionOrder
    /\ result # "none" =>
          \A n \in 1..Len(filters) :
              (OnlySlotless(filters[n][1]) /\ UsesSixOperators(filters[n][2]))
                  => result # "true"

(* column_id in the payloads, checked on a tool run (Spec). *)

\* the fields add_item sends: none when duplicating (lines 308-343)
SentFields(a) ==
    IF a.dup THEN <<>>
    ELSE [i \in 1..Len(a.fields) |-> NormalizedKeys(a.fields[i])]

\* the half of C29 about add_item
C29_AddItemColumnId ==
    (tool = "add_list_item" /\ opCalls > 0) =>
        \A i \in 1..Len(SentFields(args)) : "column_id" \in SentFields(args)[i]

\* C29: every field of an initial_fields payload and every cell of a cells
\* payload that reaches the remote API carries a column_id; add_item and
\* update_item reject an input without one before any remote call.
C29_ColumnIdAlwaysSent ==
    /\ C29_AddItemColumnId
    /\ (tool = "update_list_item" /\ opCalls > 0) =>
          \A i \in 1..Len(SentCells(args)) : "column_id" \in SentCells(args)[i]

(* Remote transient failures, checked on the invocation w of a tool run *)
(* (Spec).                                                               *)

\* a failure with a transient code, raised as an API error or returned as a
\* response with ok = false
TransientFailure(r) == r.code \in RETRYABLE_ERRORS /\ (r.raised \/ ~r.ok)

\* C27: a remote transient failure, raised or returned with ok = false, is
\* retried while retry budget remains: an invocation ends with one only
\* after retry_count + 1 remote calls.
C27_TransientRetried ==
    (w.pc \in {"returned", "raised"} /\ TransientFailure(w.out)) =>
        w.calls = retry_count + 1

\* the same for the failures the HTTP client raises
C27_RaisedTransientRetried ==
    (w.pc \in {"returned", "raised"} /\ TransientFailure(w.out)
        /\ w.out.raised) =>
        w.calls = retry_count + 1

-----------------------------------------------------------------------------
(* The make_* helpers and make_field (helpers.py), which                    *)
(* ItemBuilder.add_field repeats (builders.py lines 416-467), next to the   *)
(* normalizer on the same input.  A number is the characters Python prints  *)
(* for it ("4" is an int, "4.7" and "4.0" are floats); a tuple is            *)
(* [t |-> "tuple"] with its elements in l; a link object with a             *)
(* display_name keeps it in l and has display_as_url False.                 *)

\* an exception raised by a helper
Raised == [t |-> "raise", s |-> <<>>, l |-> <<>>]

TupleVal(elems) == [t |-> "tuple", s |-> <<>>, l |-> elems]

\* a message given as {"channel_id": channel_id, "ts": ts}
MessageObject(channel_id, ts) ==
    [t |-> "msg", s |-> channel_id, l |-> <<StrVal(ts)>>]

\* {"original_url": url, "display_name": name, "display_as_url": False}
NamedLinkObject(url, name) == [t |-> "dict", s |-> url, l |-> <<StrVal(name)>>]

DigitChars == {"0", "4", "5", "7"}

HasPoint(chars) == \E i \in 1..Len(chars) : chars[i] = "."

\* the characters before the decimal point
RECURSIVE BeforePoint(_)
BeforePoint(chars) ==
    IF chars = <<>> \/ Head(chars) = "." THEN <<>>
    ELSE <<Head(chars)>> \o BeforePoint(Tail(chars))

\* a string int() and float() parse: digits only here
IsNumeric(chars) ==
    chars # <<>> /\ \A i \in 1..Len(chars) : chars[i] \in DigitChars

\* int(x): truncation toward zero of a number, parse of a string
IntOf(x) ==
    CASE x.t = "num" ->
           LET whole == BeforePoint(x.s)
           IN  NumVal(IF whole = <<"-", "0">> THEN <<"0">> ELSE whole)
      [] x.t = "str" -> IF IsNumeric(x.s) THEN NumVal(x.s) ELSE Raised
      [] OTHER -> Raised

\* float(x)
FloatOf(x) ==
    CASE x.t = "num" ->
           IF HasPoint(x.s) THEN x ELSE NumVal(x.s \o <<".", "0">>)
      [] x.t = "str" ->
           IF IsNumeric(x.s) THEN NumVal(x.s \o <<".", "0">>) ELSE Raised
      [] OTHER -> Raised

\* the elements a for loop or list() takes from x, <<Raised>> if x is not
\* iterable
Iterate(x) ==
    CASE x.t \in {"list", "tuple"} -> x.l
      [] x.t = "str" -> [i \in 1..Len(x.s) |-> StrVal(<<x.s[i]>>)]
      [] x.t = "dict" ->
           <<StrVal(<<"original_url">>)>> \o
           (IF x.l = <<>> THEN <<>>
            ELSE <<StrVal(<<"display_name">>), StrVal(<<"display_as_url">>)>>)
      [] x.t = "msg" -> <<StrVal(<<"channel_id">>), StrVal(<<"ts">>)>>
      [] OTHER -> <<Raised>>

\* the list, or the exception one of its elements is
ListOrRaised(elems) ==
    IF \E i \in 1..Len(elems) : elems[i] = Raised THEN Raised
    ELSE ListVal(elems)

\* make_select, make_user, make_date, make_channel, make_email, make_phone,
\* make_attachment, make_message, make_canvas (helpers.py lines 85-331)
make_strings(x) ==
    IF x.t = "str" THEN ListVal(<<x>>) ELSE ListOrRaised(Iterate(x))

\* helpers.py lines 142-157
make_number(numbers) ==
    IF numbers.t = "num" THEN ListVal(<<FloatOf(numbers)>>)
    ELSE LET ns == Iterate(numbers)
         IN  ListOrRaised([i \in 1..Len(ns) |->
                              IF ns[i] = Raised THEN Raised ELSE FloatOf(ns[i])])

\* make_rating, make_timestamp, make_vote (helpers.py lines 175-206, 299-312)
make_int(x) == ListOrRaised(<<IntOf(x)>>)

\* helpers.py lines 65-82
make_link(url, display_name) ==
    ListVal(<<IF display_name.t = "str" /\ display_name.s # <<>>
              THEN NamedLinkObject(url.s, display_name.s)
              ELSE LinkObject(url.s)>>)

string_field_types ==
    {"select", "user", "date", "channel", "email", "phone", "attachment",
     "message", "canvas"}

int_field_types == {"rating", "timestamp", "vote"}

\* make_field (helpers.py lines 418-470) and ItemBuilder.add_field
\* (builders.py lines 426-467): the value stored under the type key
MakeFieldValue(field_type, x) ==
    CASE field_type \in string_field_types -> make_strings(x)
      [] field_type = "number" -> make_number(x)
      [] field_type \in int_field_types -> make_int(x)
      [] field_type = "link" ->
           IF x.t = "str" THEN make_link(x, None)
           ELSE IF x.t = "tuple" /\ Len(x.l) = 2 THEN make_link(x.l[1], x.l[2])
           ELSE x
      [] OTHER -> x

\* the field {"column_id": "Col1", field_type: x}
OneField(field_type, x) ==
    [k \in {"column_id", field_type} |->
        IF k = "column_id" THEN "Col1" ELSE x]

HelperTypes == array_field_types \cup {"link"}

HelperScalars ==
    {StrVal(<<"a">>), StrVal(<<"u">>), NumVal(<<"4">>),
     NumVal(<<"4", ".", "7">>), NumVal(<<"-", "0", ".", "5">>),
     LinkObject(<<"v">>), TupleVal(<<StrVal(<<"u">>), StrVal(<<"n">>)>>),
     MessageObject(<<"C">>, <<"4", ".", "5">>)}

HelperInputs ==
    HelperScalars \cup
    {ListVal(elems) : elems \in SeqsUpTo(HelperScalars, MaxListLen)}

\* make_field(column_id, hinput, htype) and _normalize_fields on the field
\* given as {column_id, htype: hinput}
CallMakeField ==
    /\ ~hdone
    /\ made' = MakeFieldValue(htype, hinput)
    /\ hnorm' = NormalizeField(OneField(htype, hinput))[htype]
    /\ hdone' = TRUE
    /\ UNCHANGED <<retry_count, itemVars, schemaVars, columnVars, inv, runVars, filterVars, condVars,
                   listVars, normVars, htype, hinput>>

InitHelper ==
    /\ retry_count = 0
    /\ inv = [p \in Tasks |-> IdleCall]
    /\ NoItemBuilder
    /\ NoSchemaBuilder
    /\ NoColumnBuilder
    /\ NoListing
    /\ NotRunning
    /\ NoFilterCall
    /\ NoConditionCall
    /\ NoNormalizing
    /\ htype \in HelperTypes
    /\ hinput \in HelperInputs
    /\ made = None
    /\ hnorm = None
    /\ hdone = FALSE

NextHelper == CallMakeField

SpecHelper == InitHelper /\ [][NextHelper]_vars

(* Properties of the helpers and the normalizer, checked on SpecHelper. *)

\* the array-typed fields the claim lists
ClaimedArrayTypes ==
    {"select", "user", "date", "number", "email", "phone", "attachment",
     "message", "rating", "timestamp", "channel", "vote", "canvas"}

\* a scalar of the kind the field type holds
TypedScalar(field_type, x) ==
    IF field_type \in {"number"} \cup int_field_types
    THEN x.t = "num" ELSE x.t = "str"

\* a scalar or an array of scalars of the kind the field type holds
TypedInput(field_type, x) ==
    \/ TypedScalar(field_type, x)
    \/ /\ x.t = "list"
       /\ \A i \in 1..Len(x.l) : TypedScalar(field_type, x.l[i])

\* the coercion the type asks for
Coerced(field_type, x) ==
    CASE field_type = "number" -> FloatOf(x)
      [] field_type \in int_field_types -> IntOf(x)
      [] OTHER -> x

\* the array the claim describes
ExpectedArray(field_type, x) ==
    IF x.t = "list"
    THEN ListVal([i \in 1..Len(x.l) |-> Coerced(field_type, x.l[i])])
    ELSE ListVal(<<Coerced(field_type, x)>>)

\* Python's == on numbers and lists: 4 == 4.0
RECURSIVE PyCanon(_)
PyCanon(x) ==
    CASE x.t = "num" -> FloatOf(x)
      [] x.t = "list" -> ListVal([i \in 1..Len(x.l) |-> PyCanon(x.l[i])])
      [] OTHER -> x

PyEqual(x, y) == PyCanon(x) = PyCanon(y)

\* C21: for each array-typed field, the helper and the normalizer alike turn
\* a scalar into the one-element array of the coerced input (float for
\* number, integer truncated toward zero for rating, timestamp and vote),
\* and an array into the array of the coerced elements, same length and
\* order.
C21_ScalarOrArrayToArray ==
    (hdone /\ htype \in ClaimedArrayTypes /\ TypedInput(htype, hinput)) =>
        /\ PyEqual(made, ExpectedArray(htype, hinput))
        /\ PyEqual(hnorm, ExpectedArray(htype, hinput))

\* a URL string, a (url, display_name) pair, a link object, or an array of
\* URL strings and link objects
LinkElement(x) == x.t = "dict" \/ (x.t = "str" /\ x.s = <<"u">>)

LinkInput(x) ==
    \/ LinkElement(x)
    \/ x.t = "tuple"
    \/ x.t = "list" /\ \A i \in 1..Len(x.l) : LinkElement(x.l[i])

\* the array of link objects the claim describes
ExpectedLinks(x) ==
    CASE x.t = "str" -> ListVal(<<LinkObject(x.s)>>)
      [] x.t = "tuple" -> ListVal(<<NamedLinkObject(x.l[1].s, x.l[2].s)>>)
      [] x.t = "dict" -> ListVal(<<x>>)
      [] OTHER ->
           ListVal([i \in 1..Len(x.l) |->
                       IF x.l[i].t = "str" THEN LinkObject(x.l[i].s)
                       ELSE x.l[i]])

\* C22: a link value comes out as an array of link objects, from the
\* normalizer and from make_field / ItemBuilder.add_field: a URL string as
\* [{original_url}], a (url, display_name) pair as [{original_url,
\* display_name, display_as_url: false}], a link object wrapped in a
\* one-element array, an array converted element by element in order.
C22_LinkArrayOfObjects ==
    (hdone /\ htype = "link" /\ LinkInput(hinput)) =>
        /\ made = ExpectedLinks(hinput)
        /\ hnorm = ExpectedLinks(hinput)

\* a permalink URL string, a {channel_id, ts} object, or an array of them
MessageElement(x) == x.t = "msg" \/ (x.t = "str" /\ x.s = <<"u">>)

MessageInput(x) ==
    \/ MessageElement(x)
    \/ x.t = "list" /\ \A i \in 1..Len(x.l) : MessageElement(x.l[i])

\* the characters other than the dot
RECURSIVE WithoutPoint(_)
WithoutPoint(chars) ==
    IF chars = <<>> THEN <<>>
    ELSE (IF Head(chars) = "." THEN <<>> ELSE <<Head(chars)>>)
         \o WithoutPoint(Tail(chars))

\* <workspace base URL>/archives/<channel_id>/p<ts with the dot removed>
Permalink(x) ==
    IF x.t = "msg"
    THEN StrVal(<<"https://team", "/archives/">> \o x.s \o <<"/p">>
                \o WithoutPoint(x.l[1].s))
    ELSE x

\* the array of permalinks the claim describes
ExpectedPermalinks(x) ==
    IF x.t = "list" THEN ListVal([i \in 1..Len(x.l) |-> Permalink(x.l[i])])
    ELSE ListVal(<<Permalink(x)>>)

\* C23: the message value add_item sends is an array of permalink URL
\* strings: every {channel_id, ts} object, alone or in an array, is
\* replaced by its permalink, URL strings are kept, order is kept.
C23_MessagePermalinks ==
    (hdone /\ htype = "message" /\ MessageInput(hinput)) =>
        hnorm = ExpectedPermalinks(hinput)

-----------------------------------------------------------------------------
(* ColumnBuilder (builders.py lines 84-262).  A dict is a function from its *)
(* keys; build() gives the column, or the ValueError it raises.             *)

\* lines 106-118
NewColumnBuilder(key) ==
    [key |-> key, type |-> "none", is_primary |-> FALSE, options |-> EmptyDict]

\* d[k] = v on a dict
SetItem(d, k, v) == [x \in DOMAIN d \cup {k} |-> IF x = k THEN v ELSE d[x]]

\* text, number, checkbox, email, phone, link, attachment, rating, channel,
\* message, timestamp, vote, canvas (lines 120-126, 183-236)
PlainTypes ==
    {"text", "number", "checkbox", "email", "phone", "link", "attachment",
     "rating", "channel", "message", "timestamp", "vote", "canvas"}

ColumnSetType(b, type) == [b EXCEPT !.type = type]

\* lines 130-145
ColumnSelect(b, choices) ==
    [b EXCEPT !.type = "select",
              !.options = SetItem(b.options, "choices", choices)]

\* lines 147-156
ColumnMultiSelect(b, choices) ==
    LET selected == ColumnSelect(b, choices)
    IN  [selected EXCEPT
            !.options = SetItem(selected.options, "format", "multi_select")]

\* lines 158-169
ColumnDate(b, format) ==
    [b EXCEPT !.type = "date",
              !.options = IF format # "default"
                          THEN SetItem(b.options, "format", format)
                          ELSE b.options]

\* lines 171-181
ColumnUser(b, multi) ==
    [b EXCEPT !.type = "user",
              !.options = IF multi
                          THEN SetItem(b.options, "format", "multi_entity")
                          ELSE b.options]

\* lines 238-241
ColumnPrimary(b) == [b EXCEPT !.is_primary = TRUE]

ColumnRaised(message) == [error |-> message, column |-> EmptyDict]

\* lines 251-260: options are put in only when there are any
WithOptions(b, column) ==
    IF b.options # EmptyDict THEN SetItem(column, "options", b.options)
    ELSE column

\* lines 243-262
ColumnBuild(b) ==
    IF b.type = "none"
    THEN ColumnRaised("Column type must be set before building")
    ELSE IF b.is_primary /\ b.type # "text"
    THEN ColumnRaised("Primary column must be text type")
    ELSE LET base == [k \in {"key", "name", "type"} |->
                         CASE k = "key" -> b.key
                           [] k = "name" -> "Name"
                           [] OTHER -> b.type]
             marked == IF b.is_primary
                       THEN SetItem(base, "is_primary_column", TRUE)
                       ELSE base
         IN  [error |-> "", column |-> WithOptions(b, marked)]

\* the choices and formats given to the type-setting calls
ChoiceLists ==
    {<<>>, <<[key |-> "todo", value |-> "To Do", color |-> "gray"]>>}

DateFormats == {"default", "DD/MM/YYYY"}

SetType(type) ==
    /\ cb' = ColumnSetType(cb, type)
    /\ lastSet' = type
    /\ UNCHANGED <<retry_count, itemVars, schemaVars, inv, runVars, filterVars, condVars, listVars,
                   normVars, helperVars, cbuilt>>

Select(choices) ==
    /\ cb' = ColumnSelect(cb, choices)
    /\ lastSet' = "select"
    /\ UNCHANGED <<retry_count, itemVars, schemaVars, inv, runVars, filterVars, condVars, listVars,
                   normVars, helperVars, cbuilt>>

MultiSelect(choices) ==
    /\ cb' = ColumnMultiSelect(cb, choices)
    /\ lastSet' = "select"
    /\ UNCHANGED <<retry_count, itemVars, schemaVars, inv, runVars, filterVars, condVars, listVars,
                   normVars, helperVars, cbuilt>>

Date(format) ==
    /\ cb' = ColumnDate(cb, format)
    /\ lastSet' = "date"
    /\ UNCHANGED <<retry_count, itemVars, schemaVars, inv, runVars, filterVars, condVars, listVars,
                   normVars, helperVars, cbuilt>>

User(multi) ==
    /\ cb' = ColumnUser(cb, multi)
    /\ lastSet' = "user"
    /\ UNCHANGED <<retry_count, itemVars, schemaVars, inv, runVars, filterVars, condVars, listVars,
                   normVars, helperVars, cbuilt>>

Primary ==
    /\ cb' = ColumnPrimary(cb)
    /\ UNCHANGED <<retry_count, itemVars, schemaVars, inv, runVars, filterVars, condVars, listVars,
                   normVars, helperVars, lastSet, cbuilt>>

BuildColumn ==
    /\ cbuilt' = ColumnBuild(cb)
    /\ UNCHANGED <<retry_count, itemVars, schemaVars, inv, runVars, filterVars, condVars, listVars,
                   normVars, helperVars, cb, lastSet>>

InitColumn ==
    /\ retry_count = 0
    /\ inv = [p \in Tasks |-> IdleCall]
    /\ NoItemBuilder
    /\ NoSchemaBuilder
    /\ NoHelperCall
    /\ NoListing
    /\ NotRunning
    /\ NoFilterCall
    /\ NoConditionCall
    /\ NoNormalizing
    /\ cb \in {NewColumnBuilder(key) : key \in {"task", "status"}}
    /\ lastSet = "none"
    /\ cbuilt = [error |-> "", column |-> EmptyDict]

NextColumn ==
    \/ \E type \in PlainTypes : SetType(type)
    \/ \E choices \in ChoiceLists : Select(choices)
    \/ \E choices \in ChoiceLists : MultiSelect(choices)
    \/ \E format \in DateFormats : Date(format)
    \/ \E multi \in BOOLEAN : User(multi)
    \/ Primary
    \/ BuildColumn

SpecColumn == InitColumn /\ [][NextColumn]_vars

(* Property of ColumnBuilder, checked on SpecColumn. *)

\* the options of a built column, {} when it has none
OptionsOf(column) ==
    IF "options" \in DOMAIN column THEN column["options"] ELSE EmptyDict

\* the builder has not been touched since the column was built
JustBuilt == cbuilt.error = "" /\ cbuilt = ColumnBuild(cb)

\* C30: a built column has the type set last, options.choices only when
\* that type is select, and options.format only when it is date, user or
\* select.
C30_OptionsFitType ==
    JustBuilt =>
        /\ cbuilt.column["type"] = lastSet
        /\ "choices" \in DOMAIN OptionsOf(cbuilt.column) => lastSet = "select"
        /\ "format" \in DOMAIN OptionsOf(cbuilt.column) =>
              lastSet \in {"date", "user", "select"}

-----------------------------------------------------------------------------
(* SchemaBuilder (builders.py lines 265-395). *)

MaxColumns == 3     \* columns added to one SchemaBuilder

\* dict.get("is_primary_column") is truthy
MarkedPrimary(col_dict) ==
    "is_primary_column" \in DOMAIN col_dict /\ col_dict["is_primary_column"]

\* lines 289-307: the builder's _columns and _has_primary after
\* add_column(col_dict), and the error raised
AddColumnDict(cols, primary, col_dict) ==
    IF MarkedPrimary(col_dict) /\ primary
    THEN [columns |-> cols, has_primary |-> primary,
          error |-> "Schema can only have one primary column"]
    ELSE [columns |-> Append(cols, col_dict),
          has_primary |-> primary \/ MarkedPrimary(col_dict),
          error |-> ""]

\* lines 296-299: a ColumnBuilder is built first, and its error propagates
AddColumnBuilder(cols, primary, b) ==
    IF ColumnBuild(b).error # ""
    THEN [columns |-> cols, has_primary |-> primary,
          error |-> ColumnBuild(b).error]
    ELSE AddColumnDict(cols, primary, ColumnBuild(b).column)

\* lines 391-395
SchemaBuild(cols) ==
    IF cols = <<>>
    THEN [error |-> "Schema must have at least one column", schema |-> <<>>]
    ELSE [error |-> "", schema |-> cols]

\* the ColumnBuilders given to add_column; add_text(key, name, primary),
\* add_number ... add_canvas (lines 309-389) make the first three kinds
ColumnBuilders ==
    LET new == NewColumnBuilder("task")
    IN  {ColumnSetType(new, "text"),
         ColumnPrimary(ColumnSetType(new, "text")),
         ColumnSetType(new, "number"),
         ColumnPrimary(ColumnSetType(new, "number")),
         new}

\* the plain column mappings given to add_column
ColumnMapping(type, primary) ==
    [k \in {"key", "name", "type"} \cup
           (IF primary THEN {"is_primary_column"} ELSE {}) |->
        CASE k = "key" -> "task"
          [] k = "name" -> "Name"
          [] k = "type" -> type
          [] OTHER -> TRUE]

ColumnMappings ==
    {ColumnMapping(type, primary) :
        type \in {"text", "number"}, primary \in BOOLEAN}

AddColumn(added) ==
    /\ Len(columns) < MaxColumns
    /\ columns' = added.columns
    /\ has_primary' = added.has_primary
    /\ serror' = added.error
    /\ UNCHANGED <<retry_count, itemVars, inv, runVars, filterVars, condVars, listVars,
                   normVars, helperVars, columnVars, sbuilt>>

BuildSchema ==
    /\ sbuilt' = SchemaBuild(columns)
    /\ serror' = ""
    /\ UNCHANGED <<retry_count, itemVars, inv, runVars, filterVars, condVars, listVars,
                   normVars, helperVars, columnVars, columns, has_primary>>

InitSchema ==
    /\ retry_count = 0
    /\ inv = [p \in Tasks |-> IdleCall]
    /\ NoItemBuilder
    /\ NoColumnBuilder
    /\ NoHelperCall
    /\ NoListing
    /\ NotRunning
    /\ NoFilterCall
    /\ NoConditionCall
    /\ NoNormalizing
    /\ NoSchemaBuilder

NextSchema ==
    \/ \E b \in ColumnBuilders :
          AddColumn(AddColumnBuilder(columns, has_primary, b))
    \/ \E col_dict \in ColumnMappings :
          AddColumn(AddColumnDict(columns, has_primary, col_dict))
    \/ BuildSchema

SpecSchema == InitSchema /\ [][NextSchema]_vars

(* Properties of SchemaBuilder, checked on SpecSchema. *)

PrimaryColumns(cols) == {i \in 1..Len(cols) : MarkedPrimary(cols[i])}

\* at most one column is marked primary, and it is a text column
PrimaryWellFormed(cols) ==
    /\ Cardinality(PrimaryColumns(cols)) <= 1
    /\ \A i \in PrimaryColumns(cols) : cols[i]["type"] = "text"

\* a schema build() returned is non-empty with a well-formed primary column
BuiltSchemaWellFormed ==
    sbuilt.error = "" =>
        sbuilt.schema # <<>> /\ PrimaryWellFormed(sbuilt.schema)

\* an add_column that raises leaves the builder's columns as they were
RejectedAddKeepsColumns == [][serror' # "" => columns' = columns]_vars

\* C25: every schema build() returns is non-empty, has at most one column
\* marked is_primary_column, and that column is of type text; a second
\* primary column or a non-text primary column is rejected (never among
\* the builder's columns), and a rejected add leaves the columns in the
\* builder unchanged.
C25_SchemaPrimaryColumn ==
    /\ []BuiltSchemaWellFormed
    /\ []PrimaryWellFormed(columns)
    /\ RejectedAddKeepsColumns

-----------------------------------------------------------------------------
(* ItemBuilder (builders.py lines 398-566). *)

MaxBuilderFields == 2     \* fields added to one ItemBuilder

\* bool(x)
Truthy(x) ==
    CASE x.t = "str" -> x.s # <<>>
      [] x.t = "num" -> x.s \notin {<<"0">>, <<"0", ".", "0">>}
      [] x.t \in {"list", "tuple"} -> x.l # <<>>
      [] x.t = "none" -> FALSE
      [] OTHER -> TRUE

\* lines 426-467: the key and the value add_field puts next to column_id
AddedKey(field_type) == IF field_type = "text" THEN "rich_text" ELSE field_type

AddedValue(field_type, x) ==
    CASE field_type = "text" -> RichText(Str(x))
      [] field_type = "checkbox" -> Truthy(x)
      [] OTHER -> MakeFieldValue(field_type, x)

\* lines 417-470: the builder's fields after add_field; a helper that
\* raises leaves them as they were
AddField(fields, column_id, field_type, x) ==
    IF field_type \notin {"text", "checkbox"}
       /\ MakeFieldValue(field_type, x) = Raised
    THEN fields
    ELSE Append(fields,
                [k \in {"column_id", AddedKey(field_type)} |->
                    IF k = "column_id" THEN column_id
                    ELSE AddedValue(field_type, x)])

\* lines 539-543
ItemBuild(fields) ==
    IF fields = <<>>
    THEN [error |-> "Item must have at least one field", fields |-> <<>>]
    ELSE [error |-> "", fields |-> fields]

\* lines 545-557
BuildCells(fields, row_id) ==
    [i \in 1..Len(fields) |-> SetItem(fields[i], "row_id", row_id)]

\* lines 559-566
BuildCreateCells(fields) ==
    [i \in 1..Len(fields) |-> SetItem(fields[i], "row_id_to_create", TRUE)]

BuilderColumns == {"Col1", "Col2"}
BuilderTypes == {"text", "number", "checkbox", "custom"}
BuilderValues == {StrVal(<<"a">>), NumVal(<<"4">>)}

CallAddField(column_id, field_type, x) ==
    /\ Len(bfields) < MaxBuilderFields
    /\ bfields' = AddField(bfields, column_id, field_type, x)
    /\ bop' = "add_field"
    /\ UNCHANGED <<retry_count, inv, runVars, filterVars, condVars, listVars,
                   normVars, helperVars, columnVars, schemaVars, bcells, bbuilt>>

CallBuild ==
    /\ bbuilt' = ItemBuild(bfields)
    /\ bop' = "build"
    /\ UNCHANGED <<retry_count, inv, runVars, filterVars, condVars, listVars,
                   normVars, helperVars, columnVars, schemaVars, bfields, bcells>>

\* the copies get the key; the builder's own fields are written only where
\* a copy is the field itself
CallBuildCells(row_id) ==
    /\ bcells' = BuildCells(bfields, row_id)
    /\ bfields' = CallerObjects(bfields, BuildCells(bfields, row_id))
    /\ bop' = "build_cells"
    /\ UNCHANGED <<retry_count, inv, runVars, filterVars, condVars, listVars,
                   normVars, helperVars, columnVars, schemaVars, bbuilt>>

CallBuildCreateCells ==
    /\ bcells' = BuildCreateCells(bfields)
    /\ bfields' = CallerObjects(bfields, BuildCreateCells(bfields))
    /\ bop' = "build_create_cells"
    /\ UNCHANGED <<retry_count, inv, runVars, filterVars, condVars, listVars,
                   normVars, helperVars, columnVars, schemaVars, bbuilt>>

InitItem ==
    /\ retry_count = 0
    /\ inv = [p \in Tasks |-> IdleCall]
    /\ NoSchemaBuilder
    /\ NoColumnBuilder
    /\ NoHelperCall
    /\ NoListing
    /\ NotRunning
    /\ NoFilterCall
    /\ NoConditionCall
    /\ NoNormalizing
    /\ NoItemBuilder

NextItem ==
    \/ \E column_id \in BuilderColumns, field_type \in BuilderTypes,
          x \in BuilderValues : CallAddField(column_id, field_type, x)
    \/ CallBuild
    \/ \E row_id \in {"Rec1"} : CallBuildCells(row_id)
    \/ CallBuildCreateCells

SpecItem == InitItem /\ [][NextItem]_vars

(* Properties of ItemBuilder, checked on SpecItem. *)

\* the mapping without the key
WithoutKey(d, k) == [x \in DOMAIN d \ {k} |-> d[x]]

RowKeys == {"row_id", "row_id_to_create"}

\* the create cells, marker stripped, are what build() returns
CreateCellsRoundTrip ==
    (bop = "build_create_cells" /\ bfields # <<>>) =>
        [i \in 1..Len(bcells) |-> WithoutKey(bcells[i], "row_id_to_create")]
            = ItemBuild(bfields).fields

\* the fields build() returns carry no row key
BuiltFieldsUnmarked ==
    (bop = "build" /\ bbuilt.error = "") =>
        \A i \in 1..Len(bbuilt.fields) :
            DOMAIN bbuilt.fields[i] \cap RowKeys = {}

\* C26: for a non-empty builder, build_create_cells() with the
\* row_id_to_create marker stripped equals build() field for field in
\* order; build_cells and build_create_cells leave the builder's fields
\* unchanged, so a later build() returns fields with neither row_id nor
\* row_id_to_create.
C26_CreateCellsRoundTrip ==
    /\ []CreateCellsRoundTrip
    /\ []BuiltFieldsUnmarked
    /\ [][bop' \in {"build_cells", "build_create_cells"} =>
             bfields' = bfields]_vars

\* build() after both kinds of cells were made from a non-empty builder
C26_Witness ==
    /\ bop = "build"
    /\ bbuilt.error = ""
    /\ bcells # <<>>
    /\ "row_id_to_create" \in DOMAIN bcells[1]

====
